---- MODULE Spec2Model ----
(***************************************************************************)
(* Model of the trade ingestion engine (core/discord_client.py) and of the *)
(* batch writer of the main window (core/ui_main_window.py) of the         *)
(* TCGP-TeamRocket-Tool, over the ledger tables of core/database.py.       *)
(***************************************************************************)
EXTENDS Integers, Sequences, FiniteSets, TLC

(***************************************************************************)
(* Bounds of the model                                                     *)
(***************************************************************************)
MaxMsgs == 3        \* messages ever posted to the channel
MaxCrashes == 1     \* process deaths
MaxManual == 1      \* manual "recover history" requests
MaxEmits == 3       \* card-found signals emitted in the batch-writer specification
MaxTasks == 4       \* recognitions submitted to the executor

(***************************************************************************)
(* Program constants                                                       *)
(***************************************************************************)
Pending == 0
Succeeded == 1
Failed == 2
BATCH_SIZE == 2      \* messages per batch (config.py: 500), scaled to the model

NoRow == 0          \* cursor.fetchone() is None / lookup without result

CardIds == 1..3
\* rarity column of the cards table: card 3 carries no known rarity
Rarity(c) == IF c = 3 THEN "Unknown" ELSE "Common"
SELECTED_RARITIES == {"Common"}

VARIABLES
    channel,               \* messages of the channel, message id = index
    trades,                \* table trades (rows in rowid order)
    accounts,              \* table accounts (account_id = index)
    found_cards,           \* table found_cards
    account_inventory,     \* table account_inventory
    db_write_queue,        \* MainWindow.db_write_queue
    last_log,              \* last line written by the batch writer path
    running,               \* the bot thread and its client exist
    initial_scan_done,     \* TradeMonitorClient.initial_scan_done
    last_message_id_cache, \* TradeMonitorClient.last_message_id_cache
    last_cache_update,     \* TradeMonitorClient.last_cache_update (0 = never)
    ready,                 \* position and locals of the on_ready coroutine
    inc,                   \* perform_incremental_scan_fast invocations
    batches,               \* process_message_batch_fast invocations
    crashes,
    manuals,
    app,                   \* the main window: "open", "closing" (closeEvent has
                           \* flushed and waits for the bot thread), "closed"
    card_recognition_executor, \* TradeMonitorClient.card_recognition_executor
    template_hashes,       \* CardRecognizer.template_hashes
    best_match,            \* last _find_best_match call and what it returned
    similarity_threshold,  \* CardRecognizer.similarity_threshold, in percent
    screenshot,            \* the image handed to recognize_from_image
    recognition,           \* last recognize_from_image call and its outcome
    account_calls,         \* the _get_or_create_account call of each thread
    credentials,           \* device_account, device_password of each accounts row
    owner_table,           \* CollectionCardDialog.owner_table of the open dialog
    download               \* the download_attachment_fast call under way

vars == <<channel, trades, accounts, found_cards, account_inventory,
          db_write_queue, last_log, running,
          initial_scan_done, last_message_id_cache, last_cache_update,
          ready, inc, batches, crashes, manuals,
          app, card_recognition_executor, template_hashes, best_match,
          similarity_threshold, screenshot, recognition, account_calls,
          credentials, owner_table, download>>

ledgerVars == <<trades, accounts, found_cards, account_inventory>>
writerVars == <<db_write_queue, last_log>>
screenshotVars == <<similarity_threshold, screenshot, recognition>>
recognizerVars == <<card_recognition_executor, template_hashes, best_match,
                    screenshotVars>>
\* the components the engine's own steps leave alone
extraVars == <<owner_table, download>>
componentVars == <<recognizerVars, account_calls, credentials, extraVars>>
clientVars == <<running, initial_scan_done, last_message_id_cache,
                last_cache_update, ready, inc, batches>>

(***************************************************************************)
(* Ledger: schema and statements                                           *)
(***************************************************************************)
\* unique keys of each table besides the AUTOINCREMENT id
TradesKeys == {{"message_id"}}
AccountsKeys == {{"account_name"}}
InventoryKeys == {{"account_id", "card_id"}}
\* found_cards as it would be with a unique key on the triple
FoundCardsTripleKey == {{"card_id", "account_id", "message_id"}}
FoundCardsKeys == {}

Conflicts(table, row, keys) ==
    \E i \in DOMAIN table : \E k \in keys : \A col \in k : table[i][col] = row[col]

\* INSERT OR IGNORE INTO table
InsertOrIgnore(table, row, keys) ==
    IF Conflicts(table, row, keys) THEN table ELSE Append(table, row)

\* INSERT OR REPLACE INTO account_inventory: the quantity restarts at 1
InventoryInsertOrReplace(inv, a, c) ==
    LET row == [account_id |-> a, card_id |-> c, quantity |-> 1] IN
    IF \E i \in DOMAIN inv : inv[i].account_id = a /\ inv[i].card_id = c
    THEN [i \in DOMAIN inv |->
            IF inv[i].account_id = a /\ inv[i].card_id = c THEN row ELSE inv[i]]
    ELSE Append(inv, row)

\* INSERT INTO account_inventory ... ON CONFLICT(account_id, card_id)
\* DO UPDATE SET quantity = quantity + 1
InventoryUpsert(inv, a, c) ==
    LET row == [account_id |-> a, card_id |-> c, quantity |-> 1] IN
    IF Conflicts(inv, row, InventoryKeys)
    THEN [i \in DOMAIN inv |->
            IF inv[i].account_id = a /\ inv[i].card_id = c
            THEN [inv[i] EXCEPT !.quantity = @ + 1] ELSE inv[i]]
    ELSE Append(inv, row)

\* SELECT account_id FROM accounts WHERE account_name = ?
AccountIdOf(accts, name) ==
    IF \E i \in DOMAIN accts : accts[i].account_name = name
    THEN CHOOSE i \in DOMAIN accts : accts[i].account_name = name
    ELSE NoRow

(***************************************************************************)
(* Batch writer (MainWindow)                                               *)
(***************************************************************************)
\* MainWindow._get_or_create_account: SELECT, else INSERT and lastrowid
GuiGetOrCreateAccount(accts, name) ==
    IF AccountIdOf(accts, name) # NoRow
    THEN [accounts |-> accts, id |-> AccountIdOf(accts, name)]
    ELSE [accounts |-> Append(accts, [account_name |-> name]),
          id |-> Len(accts) + 1]

\* SELECT id FROM cards WHERE set_code = ? AND card_number = ?
CardLookup(card) == IF card \in CardIds THEN card ELSE NoRow

\* on_card_found(card_data): the card lookup, the account and the queue put
OnCardFound(w, card_data) ==
    LET card_id == CardLookup(card_data.card)
        acc == GuiGetOrCreateAccount(w.accounts, card_data.account_name)
    IN  IF card_id = NoRow THEN w
        ELSE [accounts |-> acc.accounts,
              db_write_queue |->
                 Append(w.db_write_queue,
                        [card_id |-> card_id, account_id |-> acc.id,
                         message_id |-> card_data.message_id]),
              last_log |-> "card"]

\* the slot on_card_found run for each card_found_signal emission, in order
RECURSIVE DeliverCards(_, _, _)
DeliverCards(w, emitted, n) ==
    IF n = 0 THEN w ELSE OnCardFound(DeliverCards(w, emitted, n - 1), emitted[n])

WriterState == [accounts |-> accounts, db_write_queue |-> db_write_queue,
                last_log |-> last_log]

\* the statements of the flush transaction for the first n drained items
RECURSIVE ApplyItems(_, _, _)
ApplyItems(items, n, db) ==
    IF n = 0 THEN db
    ELSE LET prev == ApplyItems(items, n - 1, db)
             it == items[n]
         IN  [found_cards |-> InsertOrIgnore(prev.found_cards, it, FoundCardsKeys),
              account_inventory |->
                 InventoryUpsert(prev.account_inventory, it.account_id, it.card_id)]

\* a connection in autocommit mode: the statements run before the failure stay
TransactionResultNoRollback(before, after, raised) == after

\* "with sqlite3.connect(...) as conn": commit, or roll back when a statement raised
TransactionResult(before, after, raised) == IF raised THEN before ELSE after

\* the except branch: every drained item is put back
Requeue(queue, cards_to_process) == queue \o cards_to_process

\* process_db_write_queue once the queue is drained: the transaction, its
\* commit or rollback; statement failAt raises (0: none does)
FlushQueue(failAt) ==
    LET cards_to_process == db_write_queue
        before == [found_cards |-> found_cards,
                   account_inventory |-> account_inventory]
        n == IF failAt = 0 THEN Len(cards_to_process) ELSE failAt - 1
        after == ApplyItems(cards_to_process, n, before)
        result == TransactionResult(before, after, failAt # 0)
    IN  /\ found_cards' = result.found_cards
        /\ account_inventory' = result.account_inventory
        /\ db_write_queue' =
             IF failAt = 0 THEN <<>> ELSE Requeue(<<>>, cards_to_process)
        /\ last_log' = IF failAt = 0 THEN "ok" ELSE "error"

\* the tick of db_writer_timer (stopped by closeEvent)
process_db_write_queue ==
    /\ app = "open"
    /\ db_write_queue # <<>>
    /\ \E failAt \in 0..(Len(db_write_queue) + 1) : FlushQueue(failAt)
    /\ UNCHANGED <<channel, trades, accounts, clientVars, crashes, manuals>>
    /\ UNCHANGED <<app, componentVars>>

(***************************************************************************)
(* Messages of the channel                                                 *)
(***************************************************************************)
\* "none": no content marker; "text": marker, no image attachment;
\* "img": marker and a screenshot attachment
Kinds == {"none", "text", "img"}

\* SEARCH_STRING in message.content
HasMarker(ch, m) == ch[m] # "none"
\* extract_trade_data_fast finds an image attachment
HasImage(ch, m) == ch[m] = "img"
\* extract_trade_data_fast: name of the .xml file, else "unknown_account"
AccountName(m) == IF m % 2 = 1 THEN "acct" ELSE "unknown_account"
\* CardRecognizer.recognize_from_image on the screenshot of message m
\* (identical pixels give identical results)
Recognize(m) ==
    CASE m % 3 = 1 -> <<1>>
      [] m % 3 = 2 -> <<2, 3>>
      [] OTHER -> <<>>

\* ThreadPoolExecutor: the state of each call submitted with run_in_executor
\* and whether its coroutine still awaits it
\* waited, ran: the time since the call was submitted and the time it has
\* executed; timed_out: its wait_for raised asyncio.TimeoutError
IdleExecutor ==
    [k \in 1..MaxTasks |-> [work |-> "none", awaited |-> FALSE, waited |-> 0,
                            ran |-> 0, timed_out |-> FALSE]]
\* no _find_best_match call has been made
NoCall == [called |-> FALSE]
\* the two threads that call _get_or_create_account, neither in a call
Threads == {"client", "gui"}
IdleCalls == [th \in Threads |-> [pc |-> "idle"]]
\* no accounts row has credentials, no card dialog is open, no download runs
NoDialog == [open |-> FALSE]
NoDownload == [pc |-> "idle", log |-> <<>>]
NoExtras ==
    credentials = <<>> /\ owner_table = NoDialog /\ download = NoDownload
\* no image has been opened
NoScreenshot == [decodes |-> FALSE]
\* CardRecognizer(db_path=..., similarity_threshold=75.0)
ClientThreshold == 75
\* the recognizer as the client constructs it, before any screenshot
NoRecognition ==
    /\ similarity_threshold = ClientThreshold
    /\ screenshot = NoScreenshot
    /\ recognition = NoCall

ReadyTask == MaxMsgs + 1
ManualTask == MaxMsgs + 2
LiveTasks == 1..MaxMsgs
Scanners == {ReadyTask, ManualTask}
Tasks == LiveTasks \cup Scanners

\* timed_out: the scans of the batch that ended in asyncio.TimeoutError;
\* raised: those in which recognize_from_image raised
IdleBatch == [pc |-> "idle", msgs |-> <<>>, i |-> 1, ins |-> <<>>, scans |-> {},
              timed_out |-> {}, raised |-> {}]
\* newest: the id of new_messages[0], the newest message fetched
IdleInc == [pc |-> "idle", max_msg_id |-> 0, newest |-> 0, rest |-> <<>>]
\* posted: the number of messages in the channel when the bot was started;
\* ended: why a scan of on_ready returned early ("": none did)
IdleReady == [pc |-> "off", cur |-> 0, m |-> 0, top |-> 0, empty |-> FALSE,
              reprocess |-> {}, replayed |-> {}, posted |-> 0, ended |-> ""]

(***************************************************************************)
(* TradeMonitorClient                                                      *)
(***************************************************************************)
\* TradeMonitorClient._get_or_create_account: INSERT OR IGNORE INTO accounts
ClientGetOrCreateAccount(accts, name) ==
    InsertOrIgnore(accts, [account_name |-> name], AccountsKeys)

\* a duplicate check that finds no row
TradeNeverExists(tr, m) == FALSE

\* SELECT 1 FROM trades WHERE message_id = ?
TradeExists(tr, m) == \E i \in DOMAIN tr : tr[i].message_id = m

PendingRow(m) ==
    [message_id |-> m, account_name |-> AccountName(m),
     scan_status |-> Pending, scan_results_json |-> <<>>]

\* a plain INSERT INTO trades on a table without the primary key
InsertTradeNoIgnore(tr, m) == Append(tr, PendingRow(m))

\* INSERT OR IGNORE INTO trades (..., scan_status) VALUES (..., 0)
InsertTrade(tr, m) == InsertOrIgnore(tr, PendingRow(m), TradesKeys)

\* cursor.executemany(INSERT OR IGNORE INTO trades ..., trades_to_insert)
RECURSIVE InsertTrades(_, _, _)
InsertTrades(tr, ins, n) ==
    IF n = 0 THEN tr ELSE InsertTrade(InsertTrades(tr, ins, n - 1), ins[n])

\* UPDATE trades SET scan_status = ?, scan_results_json = ? WHERE message_id = ?
UpdateTrade(tr, m, status, results) ==
    [i \in DOMAIN tr |->
        IF tr[i].message_id = m
        THEN [tr[i] EXCEPT !.scan_status = status, !.scan_results_json = results]
        ELSE tr[i]]

\* scan_status = 1 assigned before the awaited recognition
ScanStatusAlwaysSucceeded(outcome) == Succeeded

\* results = Recognize(m) whatever the recognition did
ScanResultsIgnoringOutcome(m, outcome) == Recognize(m)

\* outcome of the awaited recognition: scan_status and results
ScanStatusOf(outcome) == IF outcome = "ok" THEN Succeeded ELSE Failed
ScanResultsOf(m, outcome) == IF outcome = "ok" THEN Recognize(m) ELSE <<>>
Outcomes == {"ok", "timeout", "error"}
\* the outcome of the await when recognize_from_image returned or raised
ScanOutcome(result) == IF result.raised = "none" THEN "ok" ELSE "error"

\* filtered_cards = [c for c in results if c.get('rarity') in SELECTED_RARITIES]
FilteredCards(results) ==
    SelectSeq(results, LAMBDA c : Rarity(c) \in SELECTED_RARITIES)

\* the card_found_callback calls of scan_image_for_cards for message m
CardCallbacks(m, results) ==
    LET f == FilteredCards(results) IN
    [k \in 1..Len(f) |->
        [account_name |-> AccountName(m), card |-> f[k], message_id |-> m]]

\* the for-loop of process_message_batch_fast from index i up to the next
\* suspension (an attachment read, whose outcome is readOK) or to its end
RECURSIVE RunLoop(_, _, _, _, _)
RunLoop(ch, b, tr, accts, readOK) ==
    IF b.i > Len(b.msgs)
    THEN [batch |-> b, accounts |-> accts, suspended |-> FALSE]
    ELSE LET m == b.msgs[b.i]
             next == [b EXCEPT !.i = @ + 1]
         IN  IF ~HasMarker(ch, m) \/ TradeExists(tr, m)
             THEN RunLoop(ch, next, tr, accts, readOK)
             ELSE IF ~HasImage(ch, m)
             THEN RunLoop(ch, [next EXCEPT !.ins = Append(@, m)], tr,
                          ClientGetOrCreateAccount(accts, AccountName(m)), readOK)
             ELSE IF ~readOK
             THEN [batch |-> next, accounts |-> accts, suspended |-> TRUE]
             ELSE [batch |-> [next EXCEPT !.ins = Append(@, m),
                                         !.scans = @ \cup {m}],
                   accounts |-> ClientGetOrCreateAccount(accts, AccountName(m)),
                   suspended |-> TRUE]

\* process_message_batch_fast resumed: the loop, then the batch INSERT and the
\* start of the recognition tasks when the loop has ended
RunBatch(ch, b, tr, accts, readOK) ==
    LET r == RunLoop(ch, b, tr, accts, readOK) IN
    IF r.suspended
    THEN [batch |-> [r.batch EXCEPT !.pc = "loop"], trades |-> tr,
          accounts |-> r.accounts]
    ELSE [batch |-> [r.batch EXCEPT
                        !.pc = IF r.batch.scans = {} THEN "done" ELSE "gather"],
          trades |-> InsertTrades(tr, r.batch.ins, Len(r.batch.ins)),
          accounts |-> r.accounts]

NewBatch(msgs) == [IdleBatch EXCEPT !.pc = "loop", !.msgs = msgs]

\* SELECT MAX / MIN(CAST(message_id AS INTEGER)) FROM trades
RECURSIVE MaxId(_)
MaxId(tr) ==
    IF tr = <<>> THEN 0
    ELSE LET rest == MaxId(Tail(tr)) IN
         IF Head(tr).message_id > rest THEN Head(tr).message_id ELSE rest
\* the backfill resumed below the newest stored id
ResumeBelowNewest(tr) == MaxId(tr)

\* SELECT MIN(CAST(message_id AS INTEGER)) FROM trades (0: no row)
RECURSIVE MinId(_)
MinId(tr) ==
    IF tr = <<>> THEN 0
    ELSE LET rest == MinId(Tail(tr)) IN
         IF rest = 0 \/ Head(tr).message_id < rest THEN Head(tr).message_id ELSE rest

\* channel.history(after = id, oldest_first = False): the newer messages, newest first
RECURSIVE HistoryAfter(_, _)
HistoryAfter(top, after) ==
    IF top <= after THEN <<>> ELSE <<top>> \o HistoryAfter(top - 1, after)

\* trade_data.get('image_path') on dict(row) of a trades row
RowImagePath(row) ==
    IF "image_path" \in DOMAIN row THEN row["image_path"] ELSE NoRow

\* scan_image_for_cards(self, trade_data, image_bytes) called with nargs arguments
ScanCallBinds(nargs) == nargs = 2

\* SELECT * FROM trades WHERE scan_status = 0 OR scan_status = 2
TradesToReprocess(tr) ==
    SelectSeq(tr, LAMBDA r : r.scan_status = Pending \/ r.scan_status = Failed)

\* recover_missing_cards: the message ids whose recognition it runs
RecoverMissingCards(trade_list) ==
    {trade_list[i].message_id : i \in
        {j \in DOMAIN trade_list :
            RowImagePath(trade_list[j]) # NoRow /\ ScanCallBinds(1)}}

\* a cache that runs ahead of the stored ids
CacheAboveStored(tr, cache) == MaxId(tr) + 1

\* the cache refresh at the head of perform_incremental_scan_fast
CacheRefreshed(tr, cache) == IF MaxId(tr) # 0 THEN MaxId(tr) ELSE cache

\* perform_incremental_scan_fast up to the first suspension of its first
\* batch: the cache refresh (when refresh), the fetch of the newer messages
\* and the first process_message_batch_fast
IncStart(ch, tr, accts, cache, refresh, readOK) ==
    LET max_msg_id == IF refresh THEN CacheRefreshed(tr, cache) ELSE cache
        new_messages == IF max_msg_id > 0 THEN HistoryAfter(Len(ch), max_msg_id)
                        ELSE <<>>
        n == IF Len(new_messages) < BATCH_SIZE THEN Len(new_messages)
             ELSE BATCH_SIZE
        r == RunBatch(ch, NewBatch(SubSeq(new_messages, 1, n)), tr, accts, readOK)
    IN  IF new_messages = <<>>
        THEN [cache |-> max_msg_id, inc |-> IdleInc, batch |-> IdleBatch,
              trades |-> tr, accounts |-> accts]
        ELSE [cache |-> max_msg_id,
              inc |-> [pc |-> "batching", max_msg_id |-> max_msg_id,
                       newest |-> Len(ch),
                       rest |-> SubSeq(new_messages, n + 1, Len(new_messages))],
              batch |-> r.batch, trades |-> r.trades, accounts |-> r.accounts]

\* DiscordBotThread.run: client construction and start
start_bot ==
    /\ app = "open"
    /\ ~running
    /\ running' = TRUE
    /\ initial_scan_done' = FALSE
    /\ last_message_id_cache' = 0
    /\ last_cache_update' = 0
    /\ ready' = [IdleReady EXCEPT !.pc = "connecting", !.posted = Len(channel)]
    /\ inc' = [s \in Scanners |-> IdleInc]
    /\ batches' = [t \in Tasks |-> IdleBatch]
    /\ UNCHANGED <<channel, ledgerVars, writerVars, crashes, manuals>>
    /\ UNCHANGED <<app, componentVars>>

\* on_ready up to its first suspension: the count, then either the start of
\* the historical scan, or the replay of Pending and Failed trades and the
\* incremental scan
on_ready ==
    /\ running /\ ready.pc = "connecting"
    /\ IF Len(trades) = 0
       THEN /\ ready' = [ready EXCEPT !.pc = "hist", !.cur = 0, !.empty = TRUE]
            /\ UNCHANGED <<inc, batches, trades, accounts,
                           last_message_id_cache, last_cache_update>>
       ELSE \E readOK \in BOOLEAN :
            LET trade_list == TradesToReprocess(trades)
                r == IncStart(channel, trades, accounts,
                              last_message_id_cache, TRUE, readOK)
            IN  /\ ready' = [ready EXCEPT
                               !.pc = IF r.inc.pc = "idle" THEN "hist" ELSE "incr",
                               !.cur = IF r.inc.pc = "idle" THEN MinId(trades) ELSE 0,
                               !.reprocess = {trade_list[i].message_id :
                                                i \in DOMAIN trade_list},
                               !.replayed = RecoverMissingCards(trade_list)]
                /\ last_message_id_cache' = r.cache
                /\ last_cache_update' = 1
                /\ inc' = [inc EXCEPT ![ReadyTask] = r.inc]
                /\ batches' = [batches EXCEPT ![ReadyTask] = r.batch]
                /\ trades' = r.trades
                /\ accounts' = r.accounts
    /\ UNCHANGED <<channel, found_cards, account_inventory, writerVars, running,
                   initial_scan_done, crashes, manuals>>
    /\ UNCHANGED <<app, componentVars>>

\* MainWindow.recover_history and _recover_history_handler: a manual
\* perform_incremental_scan_fast; the cache is refreshed when older than 60 s
ManualRecover ==
    /\ app = "open"
    /\ running /\ initial_scan_done
    /\ manuals < MaxManual
    /\ inc[ManualTask].pc = "idle" /\ batches[ManualTask].pc \in {"idle", "done"}
    /\ \E refresh \in BOOLEAN : \E readOK \in BOOLEAN :
         LET r == IncStart(channel, trades, accounts, last_message_id_cache,
                           refresh, readOK)
         IN  /\ refresh \/ last_cache_update # 0
             /\ last_message_id_cache' = r.cache
             /\ last_cache_update' = IF refresh THEN 1 ELSE last_cache_update
             /\ inc' = [inc EXCEPT ![ManualTask] = r.inc]
             /\ batches' = [batches EXCEPT ![ManualTask] = r.batch]
             /\ trades' = r.trades
             /\ accounts' = r.accounts
    /\ manuals' = manuals + 1
    /\ UNCHANGED <<channel, found_cards, account_inventory, writerVars, running,
                   initial_scan_done, ready, crashes>>
    /\ UNCHANGED <<app, componentVars>>

\* perform_incremental_scan_fast after a batch has returned: the next batch of
\* BATCH_SIZE messages, or its return (on_ready goes on to the historical scan)
IncNextBatch(s) ==
    /\ running /\ inc[s].pc = "batching"
    /\ batches[s].pc = "done"
    /\ IF inc[s].rest = <<>>
       THEN /\ inc' = [inc EXCEPT ![s] = IdleInc]
            /\ batches' = [batches EXCEPT ![s] = IdleBatch]
            /\ ready' = IF s = ReadyTask
                        THEN [ready EXCEPT !.pc = "hist", !.cur = MinId(trades)]
                        ELSE ready
            /\ UNCHANGED <<trades, accounts>>
       ELSE \E readOK \in BOOLEAN :
            LET n == IF Len(inc[s].rest) < BATCH_SIZE THEN Len(inc[s].rest)
                     ELSE BATCH_SIZE
                r == RunBatch(channel, NewBatch(SubSeq(inc[s].rest, 1, n)),
                              trades, accounts, readOK)
            IN  /\ inc' = [inc EXCEPT ![s].rest =
                             SubSeq(inc[s].rest, n + 1, Len(inc[s].rest))]
                /\ batches' = [batches EXCEPT ![s] = r.batch]
                /\ trades' = r.trades
                /\ accounts' = r.accounts
                /\ UNCHANGED ready
    /\ UNCHANGED <<channel, found_cards, account_inventory, writerVars, running,
                   initial_scan_done, last_message_id_cache, last_cache_update,
                   crashes, manuals>>
    /\ UNCHANGED <<app, componentVars>>

\* process_message_batch_fast resumed after an attachment read
BatchResume(t) ==
    /\ running /\ batches[t].pc = "loop"
    /\ \E readOK \in BOOLEAN :
         LET r == RunBatch(channel, batches[t], trades, accounts, readOK) IN
         /\ batches' = [batches EXCEPT ![t] = r.batch]
         /\ trades' = r.trades
         /\ accounts' = r.accounts
    /\ UNCHANGED <<channel, found_cards, account_inventory, writerVars, running,
                   initial_scan_done, last_message_id_cache, last_cache_update,
                   ready, inc, crashes, manuals>>
    /\ UNCHANGED <<app, componentVars>>

\* scan_image_for_cards from the return of the awaited recognition of message
\* m: the UPDATE of the trade row and the card callbacks
ScanImageForCards(m, outcome) ==
    LET results == ScanResultsOf(m, outcome)
        w == DeliverCards(WriterState, CardCallbacks(m, results),
                          Len(CardCallbacks(m, results)))
    IN  /\ trades' = UpdateTrade(trades, m, ScanStatusOf(outcome), results)
        /\ accounts' = w.accounts
        /\ db_write_queue' = w.db_write_queue
        /\ last_log' = w.last_log

\* a recognition task of a batch completes, times out or fails
ScanDone(t, m) ==
    /\ running /\ batches[t].pc = "gather" /\ m \in batches[t].scans
    /\ \E outcome \in Outcomes :
         /\ ScanImageForCards(m, outcome)
         /\ batches' = [batches EXCEPT
                          ![t].scans = @ \ {m},
                          ![t].timed_out =
                              IF outcome = "timeout" THEN @ \cup {m} ELSE @,
                          ![t].raised =
                              IF outcome = "error" THEN @ \cup {m} ELSE @,
                          ![t].pc = IF batches[t].scans = {m} THEN "done"
                                    ELSE "gather"]
    /\ UNCHANGED <<channel, found_cards, account_inventory, running,
                   initial_scan_done, last_message_id_cache, last_cache_update,
                   ready, inc, crashes, manuals>>
    /\ UNCHANGED <<app, componentVars>>

\* perform_historical_scan_streaming: the next message of the walk from the
\* newest message (or from the oldest stored id) down, up to the INSERT of
\* its trade; on_ready's last statements when the history is exhausted
HistNext ==
    /\ running /\ ready.pc = "hist"
    /\ LET from == IF ready.cur = 0 THEN Len(channel) + 1 ELSE ready.cur
           top == IF ready.cur = 0 THEN Len(channel) ELSE ready.top
           m == from - 1
       IN  IF m = 0
           THEN /\ ready' = [ready EXCEPT !.pc = "done", !.cur = from, !.top = top]
                /\ initial_scan_done' = TRUE
                /\ UNCHANGED <<trades, accounts>>
           ELSE /\ UNCHANGED initial_scan_done
                /\ \E readOK \in BOOLEAN :
                     IF ~HasMarker(channel, m) \/ (HasImage(channel, m) /\ ~readOK)
                     THEN /\ ready' = [ready EXCEPT !.cur = m, !.top = top]
                          /\ UNCHANGED <<trades, accounts>>
                     ELSE /\ accounts' =
                               ClientGetOrCreateAccount(accounts, AccountName(m))
                          /\ trades' = InsertTrade(trades, m)
                          /\ ready' = [ready EXCEPT
                                          !.cur = m, !.top = top,
                                          !.m = IF HasImage(channel, m) THEN m ELSE 0,
                                          !.pc = IF HasImage(channel, m) THEN "histscan"
                                                 ELSE "hist"]
    /\ UNCHANGED <<channel, found_cards, account_inventory, writerVars, running,
                   last_message_id_cache, last_cache_update, inc, batches,
                   crashes, manuals>>
    /\ UNCHANGED <<app, componentVars>>

\* perform_historical_scan_streaming: scan_image_for_cards of the current
\* message returns
HistScanDone ==
    /\ running /\ ready.pc = "histscan"
    /\ \E outcome \in Outcomes : ScanImageForCards(ready.m, outcome)
    /\ ready' = [ready EXCEPT !.pc = "hist", !.m = 0]
    /\ UNCHANGED <<channel, found_cards, account_inventory, running,
                   initial_scan_done, last_message_id_cache, last_cache_update,
                   inc, batches, crashes, manuals>>
    /\ UNCHANGED <<app, componentVars>>

\* a remote client posts a message while no client is connected
Post ==
    /\ ~running
    /\ Len(channel) < MaxMsgs
    /\ \E kind \in Kinds : channel' = Append(channel, kind)
    /\ UNCHANGED <<ledgerVars, writerVars, clientVars, crashes, manuals>>
    /\ UNCHANGED <<app, componentVars>>

\* a handler that only looks at the content marker
OnMessageIgnoresScanDone(done, kind) == kind = "none"

\* on_message returns at once: initial scan not done, or no content marker
OnMessageReturns(done, kind) == ~done \/ kind = "none"

\* a message is posted and the connected client gets its on_message, which
\* runs up to the first suspension of process_message_batch_fast
on_message ==
    /\ running
    /\ Len(channel) < MaxMsgs
    /\ \E kind \in Kinds : \E readOK \in BOOLEAN :
         LET m == Len(channel) + 1
             r == RunBatch(Append(channel, kind), NewBatch(<<m>>), trades,
                           accounts, readOK)
         IN  /\ channel' = Append(channel, kind)
             /\ IF OnMessageReturns(initial_scan_done, kind)
                THEN UNCHANGED <<trades, accounts, batches>>
                ELSE /\ batches' = [batches EXCEPT ![m] = r.batch]
                     /\ trades' = r.trades
                     /\ accounts' = r.accounts
    /\ UNCHANGED <<found_cards, account_inventory, writerVars, running,
                   initial_scan_done, last_message_id_cache, last_cache_update,
                   ready, inc, crashes, manuals>>
    /\ UNCHANGED <<app, componentVars>>

\* the process dies: everything but the ledger and the channel is lost
Crash ==
    /\ running
    /\ crashes < MaxCrashes
    /\ crashes' = crashes + 1
    /\ running' = FALSE
    /\ initial_scan_done' = FALSE
    /\ last_message_id_cache' = 0
    /\ last_cache_update' = 0
    /\ ready' = IdleReady
    /\ inc' = [s \in Scanners |-> IdleInc]
    /\ batches' = [t \in Tasks |-> IdleBatch]
    /\ db_write_queue' = <<>>
    /\ last_log' = "none"
    /\ UNCHANGED <<channel, ledgerVars, manuals>>
    /\ UNCHANGED <<app, componentVars>>

Init ==
    /\ app = "open"
    /\ card_recognition_executor = IdleExecutor
    /\ template_hashes = <<>>
    /\ best_match = NoCall
    /\ NoRecognition
    /\ account_calls = IdleCalls /\ NoExtras
    /\ channel = <<>>
    /\ trades = <<>>
    /\ accounts = <<>>
    /\ found_cards = <<>>
    /\ account_inventory = <<>>
    /\ db_write_queue = <<>>
    /\ last_log = "none"
    /\ running = FALSE
    /\ initial_scan_done = FALSE
    /\ last_message_id_cache = 0
    /\ last_cache_update = 0
    /\ ready = IdleReady
    /\ inc = [s \in Scanners |-> IdleInc]
    /\ batches = [t \in Tasks |-> IdleBatch]
    /\ crashes = 0
    /\ manuals = 0

Next ==
    \/ Post
    \/ start_bot
    \/ on_ready
    \/ HistNext
    \/ HistScanDone
    \/ \E s \in Scanners : IncNextBatch(s)
    \/ \E t \in Tasks : BatchResume(t)
    \/ \E t \in Tasks : \E m \in 1..MaxMsgs : ScanDone(t, m)
    \/ on_message
    \/ ManualRecover
    \/ process_db_write_queue
    \/ Crash

Spec == Init /\ [][Next]_vars

(***************************************************************************)
(* The batch writer alone: any card_found emission, any flush              *)
(***************************************************************************)
CardData ==
    [account_name : {"acct", "unknown_account"}, card : 0..2, message_id : 1..2]

\* card_found_signal delivers card_data to the slot on_card_found
on_card_found ==
    /\ Len(db_write_queue) + Len(found_cards) < MaxEmits
    /\ \E card_data \in CardData :
         LET w == OnCardFound(WriterState, card_data) IN
         /\ accounts' = w.accounts
         /\ db_write_queue' = w.db_write_queue
         /\ last_log' = w.last_log
    /\ UNCHANGED <<channel, trades, found_cards, account_inventory, clientVars,
                   crashes, manuals>>
    /\ UNCHANGED <<app, componentVars>>

NextWB ==
    \/ on_card_found
    \/ process_db_write_queue

SpecWB == Init /\ [][NextWB]_vars

(***************************************************************************)
(* Properties of the batch writer                                          *)
(***************************************************************************)
Count(seq, e) == Cardinality({i \in DOMAIN seq : seq[i] = e})
PairRows(table, a, c) ==
    {i \in DOMAIN table : table[i].account_id = a /\ table[i].card_id = c}
QuantityOf(inv, a, c) ==
    IF PairRows(inv, a, c) = {} THEN 0
    ELSE inv[CHOOSE i \in PairRows(inv, a, c) : TRUE].quantity

\* C5: a flush whose transaction fails commits nothing of the batch, and
\* every event it drained is in the queue again afterwards.
C5_FailedFlushKeepsEverything ==
    [][last_log' = "error" =>
          /\ found_cards' = found_cards
          /\ account_inventory' = account_inventory
          /\ \A i \in DOMAIN db_write_queue :
                Count(db_write_queue', db_write_queue[i])
                   >= Count(db_write_queue, db_write_queue[i])]_vars

\* a flush of two or more events has failed after an earlier one committed
C5_Witness ==
    /\ last_log = "error"
    /\ Len(db_write_queue) >= 2
    /\ found_cards # <<>>

\* C6: no two found_cards rows carry the same (card, account, message id),
\* however many queued events with that triple are flushed.
C6_OneRowPerTriple ==
    \A i, j \in DOMAIN found_cards :
        found_cards[i] = found_cards[j] => i = j

\* C7: a committed flush of N events for one (account, card) leaves exactly
\* one inventory row for the pair, its quantity N above the prior one (0
\* when there was none), and N more found_cards rows of the pair.
C7_FlushAddsN ==
    [][(db_write_queue # <<>> /\ db_write_queue' = <<>> /\ last_log' = "ok") =>
          \A i \in DOMAIN db_write_queue :
             LET a == db_write_queue[i].account_id
                 c == db_write_queue[i].card_id
                 N == Cardinality(PairRows(db_write_queue, a, c))
             IN  /\ Cardinality(PairRows(account_inventory', a, c)) = 1
                 /\ QuantityOf(account_inventory', a, c)
                       = QuantityOf(account_inventory, a, c) + N
                 /\ Cardinality(PairRows(found_cards', a, c))
                       = Cardinality(PairRows(found_cards, a, c)) + N]_vars

\* flushes have committed three events of one pair into a single row
C7_Witness ==
    /\ last_log = "ok"
    /\ db_write_queue = <<>>
    /\ \E i \in DOMAIN account_inventory :
          /\ account_inventory[i].quantity = 3
          /\ Cardinality(PairRows(found_cards, account_inventory[i].account_id,
                                  account_inventory[i].card_id)) = 3

(***************************************************************************)
(* Properties of the ingestion engine                                      *)
(***************************************************************************)
RowsOf(m) == {i \in DOMAIN trades : trades[i].message_id = m}
StatusOf(m) == trades[CHOOSE i \in RowsOf(m) : TRUE].scan_status
InBatch(t, m) == \E k \in DOMAIN batches[t].ins : batches[t].ins[k] = m
EventsFor(m) ==
    Cardinality({i \in DOMAIN db_write_queue : db_write_queue[i].message_id = m})
    + Cardinality({i \in DOMAIN found_cards : found_cards[i].message_id = m})
\* nothing is running or queued: the scans of on_ready are over, no batch
\* and no incremental scan is under way, the write queue is flushed
Quiescent ==
    /\ running /\ initial_scan_done /\ ready.pc = "done"
    /\ \A t \in Tasks : batches[t].pc \in {"idle", "done"}
    /\ \A s \in Scanners : inc[s].pc = "idle"
    /\ db_write_queue = <<>>

\* C1: trades holds at most one row per message id, whatever the
\* interleaving of the backfill, the incremental batches and on_message.
C1_OneRowPerMessage ==
    \A i, j \in DOMAIN trades :
        trades[i].message_id = trades[j].message_id => i = j

\* two handlers took the same message past the duplicate check and both
\* ran the batch INSERT
C1_Witness ==
    \E m \in DOMAIN channel : \E t1, t2 \in Tasks :
        /\ t1 # t2
        /\ InBatch(t1, m) /\ batches[t1].pc \in {"gather", "done"}
        /\ InBatch(t2, m) /\ batches[t2].pc \in {"gather", "done"}
        /\ Cardinality(RowsOf(m)) = 1

\* C2: the recognition results of a message are applied to the ledger at
\* most once: the events queued or logged for it never exceed the cards
\* recognised on its screenshot.
C2_AppliedAtMostOnce ==
    \A m \in DOMAIN channel : EventsFor(m) <= Len(FilteredCards(Recognize(m)))

\* C3: no ownership event is lost: once nothing is running or queued any
\* more, every card of a Succeeded trade is in found_cards and in
\* account_inventory.
C3_NoOwnershipEventLost ==
    Quiescent =>
        \A i \in DOMAIN trades :
            trades[i].scan_status = Succeeded =>
                \A k \in DOMAIN FilteredCards(trades[i].scan_results_json) :
                    LET c == FilteredCards(trades[i].scan_results_json)[k]
                        a == AccountIdOf(accounts, trades[i].account_name)
                    IN  /\ \E j \in DOMAIN found_cards :
                              /\ found_cards[j].message_id = trades[i].message_id
                              /\ found_cards[j].card_id = c
                        /\ QuantityOf(account_inventory, a, c) >= 1

\* C4: once on_ready is past its replay, recognition has been run again for
\* every trade with a screenshot that the previous run left Pending or Failed.
C4_PriorRunTradesRetried ==
    ready.pc \in {"incr", "hist", "histscan", "done"} =>
        \A m \in ready.reprocess : HasImage(channel, m) => m \in ready.replayed

\* C8: scan_status never moves back to Pending, and a Succeeded row is
\* never changed again, neither its status nor its results.
C8_StatusOnlyForward ==
    [][\A i \in DOMAIN trades :
          /\ i \in DOMAIN trades'
          /\ trades[i].scan_status = Succeeded => trades'[i] = trades[i]
          /\ trades[i].scan_status = Failed =>
                trades'[i].scan_status \in {Failed, Succeeded}]_vars

C9_TimeoutStep ==
    \A t \in Tasks : \A m \in DOMAIN channel :
        (m \in batches[t].timed_out' /\ m \notin batches[t].timed_out) =>
            /\ \A i \in DOMAIN trades' :
                  trades'[i].message_id = m =>
                      /\ trades'[i].scan_status = Failed
                      /\ trades'[i].scan_results_json = <<>>
            /\ db_write_queue' = db_write_queue
            /\ found_cards' = found_cards
            /\ batches'[t].scans = batches[t].scans \ {m}
            /\ batches'[t].pc = IF batches'[t].scans = {} THEN "done" ELSE "gather"

\* C9, the batch once over: the messages it started a recognition for
C9_ScannedTerminal ==
    \A t \in Tasks :
        (batches[t].pc = "done" /\ batches[t].timed_out # {}) =>
            \A k \in DOMAIN batches[t].ins :
                HasImage(channel, batches[t].ins[k]) =>
                    StatusOf(batches[t].ins[k]) \in {Succeeded, Failed}

C10_BackfillCoversHistory ==
    (ready.empty /\ ready.pc = "done") =>
        \A m \in 1..ready.top :
            IF HasMarker(channel, m)
            THEN /\ Cardinality(RowsOf(m)) = 1
                 /\ HasImage(channel, m) => StatusOf(m) # Pending
            ELSE RowsOf(m) = {}

\* C11: when the catch-up of on_ready returns, every message newer than
\* the highest stored id that carries the content marker has a trade row.
C11_CatchUpCoversNewer ==
    [][(inc[ReadyTask].pc = "batching" /\ inc'[ReadyTask].pc = "idle" /\ running') =>
          \A m \in (inc[ReadyTask].max_msg_id + 1)..inc[ReadyTask].newest :
              HasMarker(channel, m) => TradeExists(trades', m)]_vars

(***************************************************************************)
(* Shutdown of the application                                             *)
(***************************************************************************)
\* MainWindow.closeEvent up to bot_thread.stop(): the timer is stopped and
\* the write queue flushed once; the bot thread is still running
closeEvent ==
    /\ app = "open"
    /\ IF db_write_queue = <<>>
       THEN UNCHANGED <<found_cards, account_inventory, writerVars>>
       ELSE \E failAt \in 0..(Len(db_write_queue) + 1) : FlushQueue(failAt)
    /\ app' = IF running THEN "closing" ELSE "closed"
    /\ UNCHANGED <<channel, trades, accounts, clientVars, crashes, manuals,
                   componentVars>>

\* DiscordBotThread.stop and TradeMonitorClient.close: the client is closed,
\* the thread ends and closeEvent accepts the event
bot_thread_stop ==
    /\ app = "closing"
    /\ app' = "closed"
    /\ running' = FALSE
    /\ initial_scan_done' = FALSE
    /\ last_message_id_cache' = 0
    /\ last_cache_update' = 0
    /\ ready' = IdleReady
    /\ inc' = [s \in Scanners |-> IdleInc]
    /\ batches' = [t \in Tasks |-> IdleBatch]
    /\ UNCHANGED <<channel, ledgerVars, writerVars, crashes, manuals,
                   componentVars>>

NextShutdown ==
    \/ Post
    \/ start_bot
    \/ on_ready
    \/ HistNext
    \/ HistScanDone
    \/ \E t \in Tasks : BatchResume(t)
    \/ \E t \in Tasks : \E m \in 1..MaxMsgs : ScanDone(t, m)
    \/ on_message
    \/ process_db_write_queue
    \/ closeEvent
    \/ bot_thread_stop

SpecShutdown == Init /\ [][NextShutdown]_vars

\* C12: when the application has exited, and its last flush did not fail,
\* the write queue is empty: every card event produced before the exit was
\* in that flush.
C12_ExitLeavesQueueEmpty ==
    (app = "closed" /\ last_log # "error") => db_write_queue = <<>>

\* C13: a message that arrives while initial_scan_done is false inserts no
\* trade row, starts no batch and no recognition, and leaves the ledger and
\* the write queue unchanged.
C13_NoLiveProcessingBeforeScanDone ==
    [][(Len(channel') = Len(channel) + 1 /\ ~initial_scan_done) =>
          /\ UNCHANGED ledgerVars
          /\ UNCHANGED <<batches, inc, db_write_queue>>]_vars

\* the first backfill is under way and a marker message that arrived after
\* it began has no trade row
C13_Witness ==
    /\ running /\ ~initial_scan_done
    /\ ready.empty /\ ready.pc \in {"hist", "histscan"} /\ ready.cur # 0
    /\ \E m \in DOMAIN channel :
          m > ready.top /\ HasMarker(channel, m) /\ ~TradeExists(trades, m)

\* C14: a message whose attachment read failed is not dropped: every marker
\* message a batch has gone through, and every marker message the backfill
\* has walked past, has its trade row.
C14_ReadFailureKeepsMessage ==
    /\ \A t \in Tasks :
          batches[t].pc \in {"gather", "done"} =>
              \A k \in DOMAIN batches[t].msgs :
                  HasMarker(channel, batches[t].msgs[k]) =>
                      TradeExists(trades, batches[t].msgs[k])
    /\ (ready.pc \in {"hist", "histscan", "done"} /\ ready.cur # 0) =>
          \A m \in ready.cur..ready.top :
              HasMarker(channel, m) => TradeExists(trades, m)

(***************************************************************************)
(* The recognition executor: ThreadPoolExecutor(max_workers) and the       *)
(* asyncio.wait_for around run_in_executor                                 *)
(***************************************************************************)
max_workers == 2    \* worker threads of the pool (8 in the client), scaled

Executing(ex) == {k \in DOMAIN ex : ex[k].work = "running"}

\* a pool that counts only the recognitions still awaited
WorkerFreeWhenAwaitedOnly(ex) ==
    Cardinality({k \in Executing(ex) : ex[k].awaited}) < max_workers

\* a worker thread is idle, or one more may be started
WorkerFree(ex) == Cardinality(Executing(ex)) < max_workers

\* loop.run_in_executor(card_recognition_executor, recognize_from_image, ...)
run_in_executor(k) ==
    /\ card_recognition_executor[k].work = "none"
    /\ card_recognition_executor' =
          [card_recognition_executor EXCEPT ![k].work = "queued",
                                            ![k].awaited = TRUE]
    /\ UNCHANGED <<channel, ledgerVars, writerVars, clientVars, crashes, manuals,
                   app, template_hashes, best_match, screenshotVars,
                   account_calls, credentials, extraVars>>

\* a worker thread takes the call from the work queue and runs it
WorkerRun(k) ==
    /\ card_recognition_executor[k].work = "queued"
    /\ WorkerFree(card_recognition_executor)
    /\ card_recognition_executor' = [card_recognition_executor EXCEPT ![k].work = "running"]
    /\ UNCHANGED <<channel, ledgerVars, writerVars, clientVars, crashes, manuals,
                   app, template_hashes, best_match, screenshotVars,
                   account_calls, credentials, extraVars>>

\* recognize_from_image returns in its worker thread
WorkerDone(k) ==
    /\ card_recognition_executor[k].work = "running"
    /\ card_recognition_executor' =
          [card_recognition_executor EXCEPT ![k].work = "done",
                                            ![k].awaited = FALSE]
    /\ UNCHANGED <<channel, ledgerVars, writerVars, clientVars, crashes, manuals,
                   app, template_hashes, best_match, screenshotVars,
                   account_calls, credentials, extraVars>>

\* wait_for reaches timeout = 30.0: the future is cancelled; a call still in
\* the work queue never runs, a call already running runs on in its thread
WaitForTimeout(k) ==
    /\ card_recognition_executor[k].awaited
    /\ card_recognition_executor' =
          [card_recognition_executor EXCEPT
              ![k].awaited = FALSE,
              ![k].timed_out = TRUE,
              ![k].work = IF @ = "queued" THEN "cancelled" ELSE @]
    /\ UNCHANGED <<channel, ledgerVars, writerVars, clientVars, crashes, manuals,
                   app, template_hashes, best_match, screenshotVars,
                   account_calls, credentials, extraVars>>

NextExecutor ==
    \/ \E k \in 1..MaxTasks : run_in_executor(k)
    \/ \E k \in 1..MaxTasks : WorkerRun(k)
    \/ \E k \in 1..MaxTasks : WorkerDone(k)
    \/ \E k \in 1..MaxTasks : WaitForTimeout(k)

SpecExecutor == Init /\ [][NextExecutor]_vars

MAX_CONCURRENT_DOWNLOADS == 2   \* permits of self.semaphore (config.py: 100), scaled

\* the handlers suspended in "await xml_att.read()" / "await img_att.read()"
ReadsInFlight(bs) == {t \in DOMAIN bs : bs[t].pc = "loop"}

\* C16: the attachment reads in flight never exceed MAX_CONCURRENT_DOWNLOADS.
C16_ReadsBoundedBySemaphore ==
    Cardinality(ReadsInFlight(batches)) <= MAX_CONCURRENT_DOWNLOADS

(***************************************************************************)
(* DatabaseManager.set_inventory_quantity                                  *)
(***************************************************************************)
MaxQuantity == 3    \* largest quantity passed to set_inventory_quantity
InvAccounts == 1..2
InvCards == 1..2

\* an upsert that adds the new quantity to the stored one
SetInventoryQuantityAdding(inv, a, c, n) ==
    IF a = NoRow \/ c = NoRow THEN inv
    ELSE IF n <= 0
    THEN SelectSeq(inv, LAMBDA r : ~(r.account_id = a /\ r.card_id = c))
    ELSE IF \E i \in DOMAIN inv : inv[i].account_id = a /\ inv[i].card_id = c
    THEN [i \in DOMAIN inv |->
            IF inv[i].account_id = a /\ inv[i].card_id = c
            THEN [inv[i] EXCEPT !.quantity = @ + n] ELSE inv[i]]
    ELSE Append(inv, [account_id |-> a, card_id |-> c, quantity |-> n])

\* the statement of set_inventory_quantity (NoRow stands for None): DELETE
\* when new_quantity <= 0, else INSERT ... ON CONFLICT(account_id, card_id)
\* DO UPDATE SET quantity = excluded.quantity
SetInventoryQuantity(inv, a, c, n) ==
    IF a = NoRow \/ c = NoRow THEN inv
    ELSE IF n <= 0
    THEN SelectSeq(inv, LAMBDA r : ~(r.account_id = a /\ r.card_id = c))
    ELSE IF Conflicts(inv, [account_id |-> a, card_id |-> c], InventoryKeys)
    THEN [i \in DOMAIN inv |->
            IF inv[i].account_id = a /\ inv[i].card_id = c
            THEN [inv[i] EXCEPT !.quantity = n] ELSE inv[i]]
    ELSE Append(inv, [account_id |-> a, card_id |-> c, quantity |-> n])

\* set_inventory_quantity: the statement and commit, or the rollback when
\* the statement raised
set_inventory_quantity ==
    /\ \E a \in InvAccounts \cup {NoRow} : \E c \in InvCards \cup {NoRow} :
       \E n \in (-1)..MaxQuantity : \E raised \in BOOLEAN :
          account_inventory' =
             TransactionResult(account_inventory,
                               SetInventoryQuantity(account_inventory, a, c, n),
                               raised)
    /\ UNCHANGED <<channel, trades, accounts, found_cards, writerVars, clientVars,
                   crashes, manuals, app, componentVars>>

\* the account_inventory tables of at most two rows the schema admits
InventoryTables ==
    LET Rows == [account_id : InvAccounts, card_id : InvCards,
                 quantity : 1..(MaxQuantity - 1)]
    IN  {<<>>} \cup {<<r>> : r \in Rows}
        \cup {t \in {<<r1, r2>> : r1 \in Rows, r2 \in Rows} :
                 t[1].account_id # t[2].account_id \/ t[1].card_id # t[2].card_id}

InitInventory ==
    /\ account_inventory \in InventoryTables
    /\ app = "open"
    /\ card_recognition_executor = IdleExecutor
    /\ template_hashes = <<>>
    /\ best_match = NoCall
    /\ NoRecognition
    /\ account_calls = IdleCalls /\ NoExtras
    /\ channel = <<>>
    /\ trades = <<>>
    /\ accounts = <<>>
    /\ found_cards = <<>>
    /\ db_write_queue = <<>>
    /\ last_log = "none"
    /\ running = FALSE
    /\ initial_scan_done = FALSE
    /\ last_message_id_cache = 0
    /\ last_cache_update = 0
    /\ ready = IdleReady
    /\ inc = [s \in Scanners |-> IdleInc]
    /\ batches = [t \in Tasks |-> IdleBatch]
    /\ crashes = 0
    /\ manuals = 0

NextInventory == set_inventory_quantity

SpecInventory == InitInventory /\ [][NextInventory]_vars

\* C17: set_inventory_quantity(account, card, n) leaves no row of the pair
\* when n <= 0 and exactly one row of quantity n when n > 0, whether or
\* not a row existed; a second call with the same arguments changes nothing.
C17_SetQuantityExact ==
    \A a \in InvAccounts : \A c \in InvCards : \A n \in (-1)..MaxQuantity :
        LET once == SetInventoryQuantity(account_inventory, a, c, n) IN
        /\ n <= 0 => PairRows(once, a, c) = {}
        /\ n > 0 => /\ Cardinality(PairRows(once, a, c)) = 1
                    /\ QuantityOf(once, a, c) = n
        /\ SetInventoryQuantity(once, a, c, n) = once

\* a call has overwritten a row with the largest quantity and another has
\* deleted a row: the table holds a quantity no initial table has, and a
\* pair is absent
C17_Witness ==
    /\ \E i \in DOMAIN account_inventory :
          account_inventory[i].quantity = MaxQuantity
    /\ \E a \in InvAccounts : \E c \in InvCards :
          PairRows(account_inventory, a, c) = {}

(***************************************************************************)
(* CardRecognizer._find_best_match over the template corpus                *)
(***************************************************************************)
MaxHashLen == 2     \* longest fingerprint
MaxTemplates == 2   \* largest corpus

\* fingerprints: non-empty strings of '0' and '1'
RECURSIVE HashesOfLen(_)
HashesOfLen(n) ==
    IF n = 0 THEN {<<>>}
    ELSE {Append(h, b) : h \in HashesOfLen(n - 1), b \in {0, 1}}
Hashes == UNION {HashesOfLen(n) : n \in 1..MaxHashLen}

\* a distance that counts only the bits set in hash1 and clear in hash2
HammingDistanceOneSided(hash1, hash2) ==
    IF Len(hash1) # Len(hash2) THEN Len(hash1)
    ELSE Cardinality({i \in 1..Len(hash1) : hash1[i] > hash2[i]})

\* hamming_distance(hash1, hash2): len(hash1) when the lengths differ
hamming_distance(hash1, hash2) ==
    IF Len(hash1) # Len(hash2) THEN Len(hash1)
    ELSE Cardinality({i \in 1..Len(hash1) : hash1[i] # hash2[i]})

\* round(100.0 - (distance / max_distance) * 100.0, 2), in hundredths
Similarity(distance, max_distance) ==
    (20000 * (max_distance - distance) + max_distance) \div (2 * max_distance)

\* a comparison that also replaces the best match on a tie
ImprovesOrTies(distance, max_distance, best) ==
    IF best.template = 0
    THEN 100 * (max_distance - distance) + max_distance > 0
    ELSE (max_distance - distance) * best.max_distance
            >= (best.max_distance - best.distance) * max_distance

\* similarity > max_similarity, max_similarity being -1.0 before any match
Improves(distance, max_distance, best) ==
    IF best.template = 0
    THEN 100 * (max_distance - distance) + max_distance > 0
    ELSE (max_distance - distance) * best.max_distance
            > (best.max_distance - best.distance) * max_distance

\* the loop of _find_best_match over the first n templates
RECURSIVE BestOf(_, _, _)
BestOf(source_hash, templates, n) ==
    IF n = 0 THEN [template |-> 0, distance |-> 0, max_distance |-> 1]
    ELSE LET best == BestOf(source_hash, templates, n - 1)
             distance == hamming_distance(source_hash, templates[n].hash)
             max_distance == Len(templates[n].hash)
         IN  IF Improves(distance, max_distance, best)
             THEN [template |-> n, distance |-> distance,
                   max_distance |-> max_distance]
             ELSE best

\* no best match: _find_best_match returns None
NoMatch == [template |-> 0]

\* _find_best_match(source_hash): the template found and its similarity
FindBestMatch(source_hash, templates) ==
    LET best == BestOf(source_hash, templates, Len(templates)) IN
    IF best.template = 0 THEN NoMatch
    ELSE [template |-> best.template,
          card_id |-> templates[best.template].card_id,
          similarity |-> Similarity(best.distance, best.max_distance)]

\* the corpora of at most MaxTemplates templates, card_id in loading order
Corpora ==
    UNION {[1..n -> Hashes] : n \in 0..MaxTemplates}

find_best_match ==
    /\ \E source_hash \in Hashes :
          best_match' = [called |-> TRUE, source_hash |-> source_hash,
                         result |-> FindBestMatch(source_hash, template_hashes)]
    /\ UNCHANGED <<channel, ledgerVars, writerVars, clientVars, crashes, manuals,
                   app, card_recognition_executor, template_hashes,
                   screenshotVars, account_calls, credentials, extraVars>>

InitMatcher ==
    /\ \E hashes \in Corpora :
          template_hashes = [i \in DOMAIN hashes |-> [card_id |-> i, hash |-> hashes[i]]]
    /\ best_match = NoCall
    /\ NoRecognition
    /\ account_calls = IdleCalls /\ NoExtras
    /\ app = "open"
    /\ card_recognition_executor = IdleExecutor
    /\ channel = <<>>
    /\ trades = <<>>
    /\ accounts = <<>>
    /\ found_cards = <<>>
    /\ account_inventory = <<>>
    /\ db_write_queue = <<>>
    /\ last_log = "none"
    /\ running = FALSE
    /\ initial_scan_done = FALSE
    /\ last_message_id_cache = 0
    /\ last_cache_update = 0
    /\ ready = IdleReady
    /\ inc = [s \in Scanners |-> IdleInc]
    /\ batches = [t \in Tasks |-> IdleBatch]
    /\ crashes = 0
    /\ manuals = 0

NextMatcher == find_best_match

SpecMatcher == InitMatcher /\ [][NextMatcher]_vars

\* the Hamming distance of the query of the last call to template i
QueryDistance(i) ==
    hamming_distance(best_match.source_hash, template_hashes[i].hash)
\* every template fingerprint has the length of the query of the last call
EqualLengths ==
    \A i \in DOMAIN template_hashes :
        Len(template_hashes[i].hash) = Len(best_match.source_hash)

\* C18: _find_best_match never returns a match with a template whose
\* fingerprint length differs from the query's, and every similarity it
\* reports lies in [0, 100].
C18_MismatchedLengthRejected ==
    (best_match.called /\ best_match.result # NoMatch) =>
        /\ Len(template_hashes[best_match.result.template].hash)
              = Len(best_match.source_hash)
        /\ best_match.result.similarity \in 0..10000

\* C19: over a corpus of fingerprints of the query's length, _find_best_match
\* returns no match when the corpus is empty, and otherwise the first loaded
\* template among those of maximal similarity 100 * (1 - distance / length),
\* with that similarity.
C19_FirstOfMaximalSimilarity ==
    (best_match.called /\ EqualLengths) =>
        IF template_hashes = <<>> THEN best_match.result = NoMatch
        ELSE /\ best_match.result # NoMatch
             /\ LET r == best_match.result.template
                    L == Len(best_match.source_hash)
                IN  /\ \A i \in DOMAIN template_hashes :
                          Similarity(QueryDistance(i), L)
                             <= Similarity(QueryDistance(r), L)
                    /\ \A i \in 1..(r - 1) :
                          Similarity(QueryDistance(i), L)
                             < Similarity(QueryDistance(r), L)
                    /\ best_match.result.similarity
                          = Similarity(QueryDistance(r), L)
                    /\ best_match.result.card_id = template_hashes[r].card_id

\* two templates of the query's length tie on the maximum and the first
\* loaded one was returned
C19_Witness ==
    /\ best_match.called /\ EqualLengths
    /\ Len(template_hashes) >= 2
    /\ QueryDistance(1) = QueryDistance(2)
    /\ best_match.result # NoMatch /\ best_match.result.template = 1

\* C20: for fingerprints A and B of equal length hamming_distance(A, B) =
\* hamming_distance(B, A), and the similarity of a fingerprint with itself
\* is 100.
C20_SymmetricAndReflexive ==
    best_match.called =>
        LET A == best_match.source_hash IN
        /\ Similarity(hamming_distance(A, A), Len(A)) = 10000
        /\ \A i \in DOMAIN template_hashes :
              LET B == template_hashes[i].hash IN
              Len(A) = Len(B) =>
                  /\ hamming_distance(A, B) = hamming_distance(B, A)
                  /\ Similarity(hamming_distance(B, B), Len(B)) = 10000

\* the query was compared with a template of its length that differs from it
C20_Witness ==
    /\ best_match.called
    /\ \E i \in DOMAIN template_hashes :
          /\ Len(template_hashes[i].hash) = Len(best_match.source_hash)
          /\ QueryDistance(i) > 0

(***************************************************************************)
(* detect_layout and CardRecognizer.recognize_from_image                   *)
(***************************************************************************)
TARGET_GRAY_BGR == <<242, 232, 222>>
COLOR_TOLERANCE == 3
\* get_layout_from_image returns None
None == 0
\* the keys of LAYOUT_CROP_BOXES; layout l has l crop boxes
LAYOUT_CROP_BOXES == {4, 5, 6}

\* a strict comparison with the tolerance
IsColorStrictlyInRange(avg_color, target_color, tolerance) ==
    \A ch \in 1..3 :
        /\ target_color[ch] - tolerance < avg_color[ch]
        /\ avg_color[ch] < target_color[ch] + tolerance

is_color_in_range(avg_color, target_color, tolerance) ==
    \A ch \in 1..3 :
        /\ target_color[ch] - tolerance <= avg_color[ch]
        /\ avg_color[ch] <= target_color[ch] + tolerance

\* _get_layout_logic on the mean colours of the two indicator regions
get_layout_logic(img) ==
    LET top_is_gray ==
            is_color_in_range(img.top, TARGET_GRAY_BGR, COLOR_TOLERANCE)
        bottom_is_gray ==
            is_color_in_range(img.bottom, TARGET_GRAY_BGR, COLOR_TOLERANCE)
    IN  (IF top_is_gray THEN 2 ELSE 3) + (IF bottom_is_gray THEN 2 ELSE 3)

\* get_layout_from_image: any exception of the conversion gives None
get_layout_from_image(pil_image) ==
    IF pil_image.decodes THEN get_layout_logic(pil_image) ELSE None

\* what cropping and hashing one slot gives: an exception, an empty hash,
\* or a fingerprint
SlotFailures == {"error", "nohash"}

\* similarity > threshold
AcceptsAbove(match, threshold) ==
    match # NoMatch /\ match.similarity > 100 * threshold

\* best_match and best_match.get('similarity', 0) >= self.similarity_threshold
Accepts(match, threshold) ==
    match # NoMatch /\ match.similarity >= 100 * threshold

\* a failed slot ends the loop
OnSlotFailureBreak(rest) == <<>>

\* 'continue' in the loop body and in its except clause
OnSlotFailure(rest) == rest

\* the loop of recognize_from_image over the crop boxes from position on
RECURSIVE CardsInImage(_, _, _, _, _)
CardsInImage(img, layout, threshold, templates, position) ==
    IF position > layout THEN <<>>
    ELSE LET rest == CardsInImage(img, layout, threshold, templates, position + 1)
             card_hash == img.crops[position]
         IN  IF card_hash \in SlotFailures THEN OnSlotFailure(rest)
             ELSE LET match == FindBestMatch(card_hash, templates) IN
                  IF Accepts(match, threshold)
                  THEN <<[position |-> position, card_id |-> match.card_id,
                          similarity |-> match.similarity]>> \o rest
                  ELSE rest

RecognizeFromImage(img, threshold, templates) ==
    LET layout == get_layout_from_image(img) IN
    IF layout \notin LAYOUT_CROP_BOXES
    THEN [raised |-> "ValueError", layout |-> layout, cards |-> <<>>]
    ELSE [raised |-> "none", layout |-> layout,
          cards |-> CardsInImage(img, layout, threshold, templates, 1)]

recognize_from_image ==
    /\ recognition' = [called |-> TRUE, threshold |-> similarity_threshold,
                       result |-> RecognizeFromImage(screenshot,
                                      similarity_threshold, template_hashes)]
    /\ UNCHANGED <<channel, ledgerVars, writerVars, clientVars, crashes, manuals,
                   app, card_recognition_executor, template_hashes, best_match,
                   similarity_threshold, screenshot, account_calls, credentials, extraVars>>

\* the thresholds callers pass, in percent
ThresholdArgs == {-1, 0, 50, 75, 100, 101}

\* set_threshold: raises ValueError outside [0, 100]
set_threshold ==
    /\ \E threshold \in ThresholdArgs :
          IF ~(0 <= threshold /\ threshold <= 100)
          THEN UNCHANGED similarity_threshold
          ELSE similarity_threshold' = threshold
    /\ UNCHANGED <<channel, ledgerVars, writerVars, clientVars, crashes, manuals,
                   app, card_recognition_executor, template_hashes, best_match,
                   screenshot, recognition, account_calls, credentials, extraVars>>

\* the engine at rest around a recognizer
EngineIdle ==
    /\ app = "open"
    /\ account_calls = IdleCalls /\ NoExtras
    /\ card_recognition_executor = IdleExecutor
    /\ best_match = NoCall
    /\ channel = <<>>
    /\ trades = <<>>
    /\ accounts = <<>>
    /\ found_cards = <<>>
    /\ account_inventory = <<>>
    /\ db_write_queue = <<>>
    /\ last_log = "none"
    /\ running = FALSE
    /\ initial_scan_done = FALSE
    /\ last_message_id_cache = 0
    /\ last_cache_update = 0
    /\ ready = IdleReady
    /\ inc = [s \in Scanners |-> IdleInc]
    /\ batches = [t \in Tasks |-> IdleBatch]
    /\ crashes = 0
    /\ manuals = 0

\* mean colours of an indicator region: the background colour and a card's
Gray == TARGET_GRAY_BGR
CardColour == <<120, 130, 140>>
\* fingerprints of the crops: one equal to the first template, one half equal
CropOutcomes == SlotFailures \cup {<<0, 0>>, <<0, 1>>}
\* a corpus of two templates, in loading order
RecognizerCorpus ==
    <<[card_id |-> 1, hash |-> <<0, 0>>], [card_id |-> 2, hash |-> <<1, 1>>]>>

\* the images recognize_from_image is given: one that cannot be converted,
\* and for each pair of indicator colours every combination of crop outcomes
Screenshots ==
    {NoScreenshot} \cup
    UNION {[decodes : {TRUE}, top : {t}, bottom : {b},
            crops : [1..get_layout_logic([top |-> t, bottom |-> b]) -> CropOutcomes]]
           : t \in {Gray, CardColour}, b \in {Gray, CardColour}}

InitRecognizer ==
    /\ EngineIdle
    /\ template_hashes = RecognizerCorpus
    /\ similarity_threshold \in ThresholdArgs
    /\ screenshot \in Screenshots
    /\ recognition = NoCall

NextRecognizer == recognize_from_image \/ set_threshold

SpecRecognizer == InitRecognizer /\ [][NextRecognizer]_vars

\* the slots of the last call's layout, and the best match of a slot
SlotsOfCall == 1..recognition.result.layout
SlotFailed(p) == screenshot.crops[p] \in SlotFailures
SlotMatch(p) == FindBestMatch(screenshot.crops[p], template_hashes)
\* the slots whose best match reaches the threshold of the last call
SlotsAtThreshold ==
    {p \in SlotsOfCall :
        /\ ~SlotFailed(p)
        /\ SlotMatch(p) # NoMatch
        /\ SlotMatch(p).similarity >= 100 * recognition.threshold}
PositionsReturned ==
    {recognition.result.cards[i].position : i \in DOMAIN recognition.result.cards}

\* C21: recognize_from_image returns exactly the slots whose best match has
\* similarity >= the threshold, each with its 1-based position and that
\* similarity, in increasing slot order; slots below the threshold are
\* left out.
C21_ExactlySlotsAtThreshold ==
    (recognition.called /\ recognition.result.raised = "none") =>
        LET cards == recognition.result.cards IN
        /\ PositionsReturned = SlotsAtThreshold
        /\ Len(cards) = Cardinality(SlotsAtThreshold)
        /\ \A i, j \in DOMAIN cards :
              i < j => cards[i].position < cards[j].position
        /\ \A i \in DOMAIN cards :
              /\ cards[i].similarity = SlotMatch(cards[i].position).similarity
              /\ cards[i].card_id = SlotMatch(cards[i].position).card_id
              /\ cards[i].similarity >= 100 * recognition.threshold

\* a 6-slot screenshot with four crops at or above the threshold and two
\* readable crops below it gave four results
C21_Witness ==
    /\ recognition.called /\ recognition.result.raised = "none"
    /\ recognition.result.layout = 6
    /\ Len(recognition.result.cards) = 4
    /\ Cardinality({p \in SlotsOfCall :
                       /\ ~SlotFailed(p)
                       /\ SlotMatch(p).similarity < 100 * recognition.threshold}) = 2

\* C22: when a slot fails (an exception of the crop, the hash or the match,
\* or an absent hash), that slot alone gives no result: every other slot of
\* the screenshot whose match reaches the threshold is still returned.
C22_FailedSlotSkippedAlone ==
    (/\ recognition.called /\ recognition.result.raised = "none"
     /\ \E p \in SlotsOfCall : SlotFailed(p)) =>
        /\ \A p \in SlotsOfCall : SlotFailed(p) => p \notin PositionsReturned
        /\ \A p \in SlotsAtThreshold : p \in PositionsReturned

\* the first slot raised, a later one had no hash, and slots after each of
\* them were returned
C22_Witness ==
    /\ recognition.called /\ recognition.result.raised = "none"
    /\ screenshot.crops[1] = "error"
    /\ screenshot.crops[3] = "nohash"
    /\ {2, 4} \subseteq PositionsReturned

\* C24: the similarity threshold of a CardRecognizer lies in [0, 100] in
\* every reachable state, construction included.
C24_ThresholdInRange ==
    0 <= similarity_threshold /\ similarity_threshold <= 100

(***************************************************************************)
(* _get_layout_logic over mean colours around the tolerance                *)
(***************************************************************************)
\* per-channel distances of a region's mean colour from the target colour
Deviations ==
    {-(COLOR_TOLERANCE + 1), -COLOR_TOLERANCE, 0, COLOR_TOLERANCE,
     COLOR_TOLERANCE + 1}
IndicatorColours ==
    {[ch \in 1..3 |-> TARGET_GRAY_BGR[ch] + dev[ch]] : dev \in [1..3 -> Deviations]}

\* screenshots that differ in their two indicator regions only
LayoutScreenshots ==
    {[decodes |-> TRUE, top |-> t, bottom |-> b,
      crops |-> [p \in 1..get_layout_logic([top |-> t, bottom |-> b]) |-> "nohash"]]
     : t \in IndicatorColours, b \in IndicatorColours}

InitLayout ==
    /\ EngineIdle
    /\ template_hashes = RecognizerCorpus
    /\ similarity_threshold = ClientThreshold
    /\ screenshot \in LayoutScreenshots
    /\ recognition = NoCall

NextLayout == recognize_from_image

SpecLayout == InitLayout /\ [][NextLayout]_vars

\* every channel of the region's mean colour is within the tolerance,
\* inclusive, of the target colour
BackgroundColoured(colour) ==
    \A ch \in 1..3 :
        (colour[ch] - TARGET_GRAY_BGR[ch]) * (colour[ch] - TARGET_GRAY_BGR[ch])
            <= COLOR_TOLERANCE * COLOR_TOLERANCE

\* C25: the detected layout is (2 if the top indicator region is
\* background-coloured, else 3) + (2 if the bottom one is, else 3), a region
\* being background-coloured iff every channel of its mean colour is within
\* the tolerance, inclusive, of the target; it is always 4, 5 or 6.
C25_LayoutIsSumOfRows ==
    (recognition.called /\ screenshot.decodes) =>
        /\ recognition.result.layout =
              (IF BackgroundColoured(screenshot.top) THEN 2 ELSE 3)
              + (IF BackgroundColoured(screenshot.bottom) THEN 2 ELSE 3)
        /\ recognition.result.layout \in {4, 5, 6}

\* the top region is exactly at the tolerance on a channel, the bottom region
\* one past it on one channel only: two cards above, three below
C25_Witness ==
    /\ recognition.called /\ screenshot.decodes
    /\ screenshot.top[1] = TARGET_GRAY_BGR[1] + COLOR_TOLERANCE
    /\ screenshot.top[2] = TARGET_GRAY_BGR[2] - COLOR_TOLERANCE
    /\ screenshot.bottom[1] = TARGET_GRAY_BGR[1]
    /\ screenshot.bottom[2] = TARGET_GRAY_BGR[2]
    /\ screenshot.bottom[3] = TARGET_GRAY_BGR[3] + COLOR_TOLERANCE + 1
    /\ recognition.result.layout = 5

\* C23, the recognizer: an image whose layout cannot be determined gives
\* ValueError, no layout and no results, which the engine awaits as an error
C23_UnknownLayoutRaises ==
    LET result == RecognizeFromImage(NoScreenshot, similarity_threshold,
                                     template_hashes)
    IN  /\ result = [raised |-> "ValueError", layout |-> None, cards |-> <<>>]
        /\ ScanOutcome(result) = "error"

\* C23, the engine: the step in which a recognition raises
C23_RaisedStep ==
    \A t \in Tasks : \A m \in DOMAIN channel :
        (m \in batches[t].raised' /\ m \notin batches[t].raised) =>
            /\ \A i \in DOMAIN trades' :
                  trades'[i].message_id = m =>
                      /\ trades'[i].scan_status = Failed
                      /\ trades'[i].scan_results_json = <<>>
            /\ db_write_queue' = db_write_queue
            /\ batches'[t].scans = batches[t].scans \ {m}
            /\ batches'[t].pc = IF batches'[t].scans = {} THEN "done" ELSE "gather"

\* C23, the batch once over: its other recognitions were all carried out
C23_OthersProcessed ==
    \A t \in Tasks :
        (batches[t].pc = "done" /\ batches[t].raised # {}) =>
            \A k \in DOMAIN batches[t].ins :
                HasImage(channel, batches[t].ins[k]) =>
                    StatusOf(batches[t].ins[k]) \in {Succeeded, Failed}

AccountNames == {"", "acct", "unknown_account"}

\* what data.get('deviceAccount') and data.get('devicePassword') can give:
\* None for a missing or empty element, else its text
CredentialArgs == {"None", "", "dev1", "dev2"}

\* a test that every value passes
AnyText(x) == TRUE

\* the truth value Python gives to x
Truthy(x) == x \notin {"None", ""}

\* UPDATE accounts SET device_account = ?, device_password = ? WHERE
\* account_name = ?, under "if device_account and device_password"
UpdateCredentials(creds, name, device_account, device_password) ==
    IF Truthy(device_account) /\ Truthy(device_password)
    THEN [n \in DOMAIN creds \cup {name} |->
            IF n = name
            THEN [device_account |-> device_account,
                  device_password |-> device_password]
            ELSE creds[n]]
    ELSE creds

NotInCall(th) == account_calls[th].pc \in {"idle", "returned"}
Returned(name, result) == [pc |-> "returned", name |-> name, result |-> result]

\* TradeMonitorClient._get_or_create_account up to its commit: None for an
\* empty name, else INSERT OR IGNORE INTO accounts and the UPDATE of the
\* credentials when both are given
client_insert_account ==
    /\ NotInCall("client")
    /\ \E name \in AccountNames :
       \E device_account \in CredentialArgs, device_password \in CredentialArgs :
          IF name = ""
          THEN /\ account_calls' =
                     [account_calls EXCEPT !["client"] = Returned(name, None)]
               /\ UNCHANGED <<accounts, credentials>>
          ELSE /\ accounts' = ClientGetOrCreateAccount(accounts, name)
               /\ credentials' = UpdateCredentials(credentials, name,
                                                   device_account, device_password)
               /\ account_calls' =
                     [account_calls EXCEPT !["client"] =
                         [pc |-> "select", name |-> name,
                          device_account |-> device_account,
                          device_password |-> device_password]]
    /\ UNCHANGED <<channel, trades, found_cards, account_inventory, writerVars,
                   clientVars, crashes, manuals, app, recognizerVars, extraVars>>

\* TradeMonitorClient._get_or_create_account: SELECT account_id and return
client_select_account ==
    /\ account_calls["client"].pc = "select"
    /\ account_calls' =
          [account_calls EXCEPT !["client"] =
              Returned(@.name, AccountIdOf(accounts, @.name))]
    /\ UNCHANGED <<channel, ledgerVars, writerVars, clientVars, crashes, manuals,
                   app, recognizerVars, credentials, extraVars>>

\* MainWindow._get_or_create_account: the SELECT; returns the id it finds
gui_select_account ==
    /\ NotInCall("gui")
    /\ \E name \in AccountNames :
          account_calls' =
              [account_calls EXCEPT !["gui"] =
                  IF AccountIdOf(accounts, name) # NoRow
                  THEN Returned(name, AccountIdOf(accounts, name))
                  ELSE [pc |-> "insert", name |-> name]]
    /\ UNCHANGED <<channel, ledgerVars, writerVars, clientVars, crashes, manuals,
                   app, recognizerVars, credentials, extraVars>>

\* MainWindow._get_or_create_account: the plain INSERT and lastrowid; the
\* UNIQUE constraint on account_name raises, which is caught and gives None
gui_insert_account ==
    /\ account_calls["gui"].pc = "insert"
    /\ LET name == account_calls["gui"].name IN
       IF Conflicts(accounts, [account_name |-> name], AccountsKeys)
       THEN /\ account_calls' =
                  [account_calls EXCEPT !["gui"] = Returned(name, None)]
            /\ UNCHANGED accounts
       ELSE /\ accounts' = Append(accounts, [account_name |-> name])
            /\ account_calls' =
                  [account_calls EXCEPT !["gui"] = Returned(name, Len(accounts) + 1)]
    /\ UNCHANGED <<channel, trades, found_cards, account_inventory, writerVars,
                   clientVars, crashes, manuals, app, recognizerVars,
                   credentials, extraVars>>

InitAccounts ==
    /\ EngineIdle
    /\ template_hashes = <<>>
    /\ NoRecognition

NextAccounts ==
    \/ client_insert_account
    \/ client_select_account
    \/ gui_select_account
    \/ gui_insert_account

SpecAccounts == InitAccounts /\ [][NextAccounts]_vars

\* C26: the accounts table has one row per name, every non-empty name a
\* returned call referred to has exactly one row, and the call returned the
\* account id of that row.
C26_OneRowPerNameAndItsId ==
    /\ \A i, j \in DOMAIN accounts :
          accounts[i].account_name = accounts[j].account_name => i = j
    /\ \A th \in Threads :
          (account_calls[th].pc = "returned" /\ account_calls[th].name # "") =>
              /\ Cardinality({i \in DOMAIN accounts :
                     accounts[i].account_name = account_calls[th].name}) = 1
              /\ account_calls[th].result
                    = AccountIdOf(accounts, account_calls[th].name)

\* C27: once a startup has finished its scans, every message with the
\* marker and no screenshot that was in the channel before that startup has
\* a trade row, whenever it arrived, during an earlier initial scan
\* included.
C27_EarlierArrivalsStored ==
    Quiescent =>
        \A m \in 1..ready.posted :
            channel[m] = "text" => TradeExists(trades, m)

(***************************************************************************)
(* A startup that finds more new messages than one batch holds             *)
(***************************************************************************)
\* the messages posted while no client was connected: one more than a batch
Backlog == BATCH_SIZE + 1

\* the ledger an earlier run left when message 1, without a screenshot, was
\* the whole channel, and the channel after Backlog more messages
InitCatchUp ==
    /\ \E newer \in [1..Backlog -> Kinds] : channel = <<"text">> \o newer
    /\ trades = <<PendingRow(1)>>
    /\ accounts = <<[account_name |-> AccountName(1)]>>
    /\ found_cards = <<>>
    /\ account_inventory = <<>>
    /\ db_write_queue = <<>>
    /\ last_log = "none"
    /\ running = FALSE
    /\ initial_scan_done = FALSE
    /\ last_message_id_cache = 0
    /\ last_cache_update = 0
    /\ ready = IdleReady
    /\ inc = [s \in Scanners |-> IdleInc]
    /\ batches = [t \in Tasks |-> IdleBatch]
    /\ crashes = 0
    /\ manuals = 0
    /\ app = "open"
    /\ card_recognition_executor = IdleExecutor
    /\ template_hashes = <<>>
    /\ best_match = NoCall
    /\ NoRecognition
    /\ account_calls = IdleCalls /\ NoExtras

NextCatchUp ==
    \/ start_bot
    \/ on_ready
    \/ HistNext
    \/ \E s \in Scanners : IncNextBatch(s)
    \/ \E t \in Tasks : BatchResume(t)
    \/ \E t \in Tasks : \E m \in DOMAIN channel : ScanDone(t, m)
    \/ process_db_write_queue
    \/ Crash

SpecCatchUp == InitCatchUp /\ [][NextCatchUp]_vars

\* C28: once a startup has finished its scans, whatever interrupted the
\* catch-up of an earlier one, every message with the marker and no
\* screenshot that is newer than the id stored before the catch-up has a
\* trade row.
C28_InterruptedCatchUpResumed ==
    Quiescent =>
        \A m \in DOMAIN channel :
            (m > MinId(trades) /\ channel[m] = "text") => TradeExists(trades, m)

(***************************************************************************)
(* The engine under the scheduling of the event loop: the historical scan   *)
(* goes on whenever it can                                                 *)
(***************************************************************************)
Fairness ==
    /\ WF_vars(HistNext)
    /\ WF_vars(HistScanDone)

SpecFair == Spec /\ Fairness

\* C29, the walk: the step of the historical scan that goes on to message m
C29_WalkStep ==
    (/\ ready.pc = "hist" /\ ready'.pc \in {"hist", "histscan"}
     /\ ready'.cur # ready.cur) =>
        /\ ~TradeExists(trades, ready'.cur)
        /\ trades # <<>> => ready'.cur < MinId(trades)
        /\ ready'.pc = "histscan" => ready'.m = ready'.cur

\* C29, the end: a running backfill ends or is interrupted
C29_WalkEnds ==
    (running /\ ready.pc \in {"hist", "histscan"})
        ~> (~running \/ (ready.pc = "done" /\ ready.cur = 1))

BatchResumeInsertFails(t) ==
    /\ running /\ batches[t].pc = "loop"
    /\ \E readOK \in BOOLEAN :
         LET r == RunBatch(channel, batches[t], trades, accounts, readOK) IN
         /\ r.batch.pc # "loop" /\ r.batch.ins # <<>>
         /\ batches' = [batches EXCEPT ![t] = r.batch]
         /\ accounts' = r.accounts
    /\ UNCHANGED <<channel, trades, found_cards, account_inventory, writerVars,
                   running, initial_scan_done, last_message_id_cache,
                   last_cache_update, ready, inc, crashes, manuals>>
    /\ UNCHANGED <<app, componentVars>>

\* scan_image_for_cards when its UPDATE raises: the exception is logged and
\* the function goes on to the card callbacks
ScanImageForCardsUpdateFails(m, outcome) ==
    LET results == ScanResultsOf(m, outcome)
        w == DeliverCards(WriterState, CardCallbacks(m, results),
                          Len(CardCallbacks(m, results)))
    IN  /\ UNCHANGED trades
        /\ accounts' = w.accounts
        /\ db_write_queue' = w.db_write_queue
        /\ last_log' = w.last_log

ScanDoneUpdateFails(t, m) ==
    /\ running /\ batches[t].pc = "gather" /\ m \in batches[t].scans
    /\ \E outcome \in Outcomes :
         /\ ScanImageForCardsUpdateFails(m, outcome)
         /\ batches' = [batches EXCEPT
                          ![t].scans = @ \ {m},
                          ![t].timed_out =
                              IF outcome = "timeout" THEN @ \cup {m} ELSE @,
                          ![t].raised =
                              IF outcome = "error" THEN @ \cup {m} ELSE @,
                          ![t].pc = IF batches[t].scans = {m} THEN "done"
                                    ELSE "gather"]
    /\ UNCHANGED <<channel, found_cards, account_inventory, running,
                   initial_scan_done, last_message_id_cache, last_cache_update,
                   ready, inc, crashes, manuals>>
    /\ UNCHANGED <<app, componentVars>>

HistScanDoneUpdateFails ==
    /\ running /\ ready.pc = "histscan"
    /\ \E outcome \in Outcomes : ScanImageForCardsUpdateFails(ready.m, outcome)
    /\ ready' = [ready EXCEPT !.pc = "hist", !.m = 0]
    /\ UNCHANGED <<channel, found_cards, account_inventory, running,
                   initial_scan_done, last_message_id_cache, last_cache_update,
                   inc, batches, crashes, manuals>>
    /\ UNCHANGED <<app, componentVars>>

NextFaults ==
    \/ Post
    \/ start_bot
    \/ on_ready
    \/ HistNext
    \/ HistScanDone
    \/ \E s \in Scanners : IncNextBatch(s)
    \/ \E t \in Tasks : BatchResume(t)
    \/ \E t \in Tasks : \E m \in 1..MaxMsgs : ScanDone(t, m)
    \/ process_db_write_queue
    \/ Crash
    \/ \E t \in Tasks : BatchResumeInsertFails(t)
    \/ \E t \in Tasks : \E m \in 1..MaxMsgs : ScanDoneUpdateFails(t, m)
    \/ HistScanDoneUpdateFails

SpecFaults == Init /\ [][NextFaults]_vars

\* C30: every card event that a step adds to the write queue belongs to a
\* message whose trade row exists, after the step, with status Succeeded.
C30_EventsOnlyAfterSucceeded ==
    [][\A k \in DOMAIN db_write_queue' :
          (Len(db_write_queue') > Len(db_write_queue) /\ k > Len(db_write_queue)) =>
              \E i \in DOMAIN trades' :
                  /\ trades'[i].message_id = db_write_queue'[k].message_id
                  /\ trades'[i].scan_status = Succeeded]_vars

(***************************************************************************)
(* The inventory against the log it is derived from                        *)
(***************************************************************************)
\* C31: whatever events were queued and whatever flushes committed or
\* failed, every account_inventory row has as quantity the number of
\* found_cards rows of its (account, card), and that number is at least 1.
C31_InventoryCountsLog ==
    \A i \in DOMAIN account_inventory :
        LET a == account_inventory[i].account_id
            c == account_inventory[i].card_id
        IN  /\ account_inventory[i].quantity
                  = Cardinality(PairRows(found_cards, a, c))
            /\ PairRows(found_cards, a, c) # {}

\* a pair was committed twice, and the flush of a later event has failed
C31_Witness ==
    /\ last_log = "error"
    /\ db_write_queue # <<>>
    /\ \E i \in DOMAIN account_inventory : account_inventory[i].quantity = 2

(***************************************************************************)
(* The duplicate check of process_message_batch_fast                       *)
(***************************************************************************)
\* the positions of its messages that the batch of task t passes in a step
PassedBy(t) ==
    IF batches'[t] = batches[t] \/ batches[t].pc = "gather" THEN {}
    ELSE IF batches[t].pc = "loop" /\ batches[t].msgs = batches'[t].msgs
    THEN batches[t].i .. (batches'[t].i - 1)
    ELSE 1 .. (batches'[t].i - 1)
\* trades_to_insert and tasks_to_run of task t before the step
InsBefore(t) ==
    IF batches[t].pc = "loop" /\ batches[t].msgs = batches'[t].msgs
    THEN batches[t].ins ELSE <<>>
ScansBefore(t) ==
    IF batches[t].pc = "loop" /\ batches[t].msgs = batches'[t].msgs
    THEN batches[t].scans ELSE {}
Stored(m) == \E i \in DOMAIN trades : trades[i].message_id = m

\* C32: a message that has a trade row when the loop reaches it is passed
\* over: it is not added to trades_to_insert, no recognition is started for
\* it and its row stays as it is; a step in which the batch passes only
\* such messages creates no account and queues no event.
C32_StoredMessageSkipped ==
    [][\A t \in Tasks :
          /\ \A k \in PassedBy(t) :
                LET m == batches'[t].msgs[k] IN
                Stored(m) =>
                   /\ Count(batches'[t].ins, m) = Count(InsBefore(t), m)
                   /\ (m \in batches'[t].scans => m \in ScansBefore(t))
                   /\ \A i \in DOMAIN trades :
                         trades[i].message_id = m => trades'[i] = trades[i]
          /\ (PassedBy(t) # {}
                /\ \A k \in PassedBy(t) : Stored(batches'[t].msgs[k])) =>
                   /\ accounts' = accounts
                   /\ db_write_queue' = db_write_queue
                   /\ batches'[t].ins = InsBefore(t)
                   /\ batches'[t].scans = ScansBefore(t)]_vars

\* a finished batch fetched a message with the marker and no screenshot,
\* and did not insert it: it had a row when the loop reached it
C32_Witness ==
    \E t \in Tasks : \E k \in DOMAIN batches[t].msgs :
        /\ batches[t].pc = "done"
        /\ channel[batches[t].msgs[k]] = "text"
        /\ ~InBatch(t, batches[t].msgs[k])
        /\ Stored(batches[t].msgs[k])

(***************************************************************************)
(* The recognition executor with time: one tick is a third of the          *)
(* wait_for timeout                                                        *)
(***************************************************************************)
RECOGNITION_TIMEOUT == 3   \* timeout=30.0 of asyncio.wait_for, in ticks
MaxRun == 2                \* longest execution of recognize_from_image, in ticks

\* wait_for raises when timeout has passed since the coroutine awaited it,
\* that is since run_in_executor submitted the call
TimeoutDue(k) ==
    /\ card_recognition_executor[k].awaited
    /\ card_recognition_executor[k].waited = RECOGNITION_TIMEOUT

\* an execution that ends at the instant of the timeout returns its result
WaitForTimeoutDue(k) ==
    /\ TimeoutDue(k)
    /\ ~(card_recognition_executor[k].work = "running"
          /\ card_recognition_executor[k].ran = MaxRun)
    /\ WaitForTimeout(k)

\* time passes: no timeout is due, no queued call could be taken by a free
\* worker, no execution has reached its longest duration
Tick ==
    /\ \E k \in 1..MaxTasks : card_recognition_executor[k].awaited
    /\ \A k \in 1..MaxTasks :
          /\ TimeoutDue(k) =>
                (card_recognition_executor[k].work = "running"
                 /\ card_recognition_executor[k].ran = MaxRun)
          /\ card_recognition_executor[k].work = "queued" =>
                ~WorkerFree(card_recognition_executor)
          /\ card_recognition_executor[k].work = "running" =>
                card_recognition_executor[k].ran < MaxRun
    /\ card_recognition_executor' =
          [k \in 1..MaxTasks |->
             [card_recognition_executor[k] EXCEPT
                 !.waited = IF card_recognition_executor[k].awaited
                            THEN @ + 1 ELSE @,
                 !.ran = IF card_recognition_executor[k].work = "running"
                         THEN @ + 1 ELSE @]]
    /\ UNCHANGED <<channel, ledgerVars, writerVars, clientVars, crashes, manuals,
                   app, template_hashes, best_match, screenshotVars,
                   account_calls, credentials, extraVars>>

NextTimed ==
    \/ \E k \in 1..MaxTasks : run_in_executor(k)
    \/ \E k \in 1..MaxTasks : WorkerRun(k)
    \/ \E k \in 1..MaxTasks : WorkerDone(k)
    \/ \E k \in 1..MaxTasks : WaitForTimeoutDue(k)
    \/ Tick

SpecTimed == Init /\ [][NextTimed]_vars

\* C33: a recognition whose wait_for timed out has itself executed for the
\* timeout; one that executes for less is never failed by the time it
\* spent in the queue of the pool.
C33_TimeoutBoundsExecution ==
    \A k \in 1..MaxTasks :
        card_recognition_executor[k].timed_out =>
            card_recognition_executor[k].ran >= RECOGNITION_TIMEOUT

(***************************************************************************)
(* The credentials of an account                                           *)
(***************************************************************************)
\* C35: the stored credentials of an account change only in a call of
\* _get_or_create_account for that account in which device_account and
\* device_password are both given, and then to that pair; no call removes
\* or clears the stored pair.
C35_CredentialsNeedBoth ==
    [][/\ DOMAIN credentials \subseteq DOMAIN credentials'
       /\ \A n \in DOMAIN credentials' :
             (n \notin DOMAIN credentials \/ credentials'[n] # credentials[n]) =>
                /\ account_calls'["client"].pc = "select"
                /\ account_calls'["client"].name = n
                /\ account_calls'["client"].device_account \notin {"None", ""}
                /\ account_calls'["client"].device_password \notin {"None", ""}
                /\ credentials'[n] =
                      [device_account |-> account_calls'["client"].device_account,
                       device_password |-> account_calls'["client"].device_password]
      ]_vars

\* a call for an account with stored credentials was given one of the two only
C35_Witness ==
    /\ account_calls["client"].pc = "select"
    /\ account_calls["client"].name \in DOMAIN credentials
    /\ account_calls["client"].device_account = "dev2"
    /\ account_calls["client"].device_password \in {"None", ""}
    /\ credentials[account_calls["client"].name].device_account = "dev1"

(***************************************************************************)
(* CollectionCardDialog: the owners of a card and the + and - buttons,     *)
(* while the batch writer flushes detections                               *)
(***************************************************************************)
NoClick == [clicked |-> FALSE]

\* query_owners of fetch_card_data: the accounts with quantity > 0 of the card
OwnersOf(inv, c) ==
    {inv[i].account_id : i \in {j \in DOMAIN inv : inv[j].card_id = c
                                                  /\ inv[j].quantity > 0}}

\* dialog = CollectionCardDialog(card_id, ...); dialog.exec_(): the owner
\* table is filled once, from the inventory of that moment (logged: the
\* found_cards rows of the pair at that moment; clicks: clicks on the row)
open_card_dialog ==
    /\ app = "open"
    /\ ~owner_table.open
    /\ \E c \in CardIds :
          owner_table' =
             [open |-> TRUE, card_id |-> c,
              rows |-> [a \in OwnersOf(account_inventory, c) |->
                          [text |-> QuantityOf(account_inventory, a, c),
                           loaded |-> QuantityOf(account_inventory, a, c),
                           logged |-> Cardinality(PairRows(found_cards, a, c)),
                           clicks |-> 0]],
              last |-> NoClick]
    /\ UNCHANGED <<channel, ledgerVars, writerVars, clientVars, crashes, manuals,
                   app, recognizerVars, account_calls, credentials, download>>

\* the dialog is closed
close_card_dialog ==
    /\ owner_table.open
    /\ owner_table' = NoDialog
    /\ UNCHANGED <<channel, ledgerVars, writerVars, clientVars, crashes, manuals,
                   app, recognizerVars, account_calls, credentials, download>>

\* new_qty = int(qty_item.text()) + amount_change
ClickedQuantity(text, amount_change) == text + amount_change

\* _handle_quantity_change(row_index, account_id, amount_change): the new
\* quantity from the text of the table, set_inventory_quantity, and the
\* table updated when it returned True (last: this click, with the quantity
\* loaded and the detections of the pair flushed since)
handle_quantity_change ==
    /\ owner_table.open
    /\ \E a \in DOMAIN owner_table.rows : \E amount_change \in {-1, 1} :
       \E raised \in BOOLEAN :
          LET c == owner_table.card_id
              row == owner_table.rows[a]
              new_qty == ClickedQuantity(row.text, amount_change)
          IN  /\ new_qty <= MaxQuantity
              /\ account_inventory' =
                    TransactionResult(account_inventory,
                        SetInventoryQuantity(account_inventory, a, c, new_qty),
                        raised)
              /\ owner_table' =
                    IF raised THEN owner_table
                    ELSE [owner_table EXCEPT
                            !.rows = IF new_qty <= 0
                                     THEN [b \in DOMAIN @ \ {a} |-> @[b]]
                                     ELSE [@ EXCEPT ![a].text = new_qty,
                                                    ![a].clicks = 1],
                            !.last = [clicked |-> TRUE, account_id |-> a,
                                      amount_change |-> amount_change,
                                      q |-> row.loaded,
                                      k |-> Cardinality(PairRows(found_cards, a, c))
                                              - row.logged,
                                      first |-> row.clicks = 0]]
    /\ UNCHANGED <<channel, trades, accounts, found_cards, writerVars, clientVars,
                   crashes, manuals, app, recognizerVars, account_calls,
                   credentials, download>>

NextDialog ==
    \/ on_card_found
    \/ process_db_write_queue
    \/ open_card_dialog
    \/ close_card_dialog
    \/ handle_quantity_change

SpecDialog == Init /\ [][NextDialog]_vars

\* C34: the first click on a row of the dialog, with delta d, leaves the
\* stored quantity of the pair at q + k + d, q being the quantity loaded
\* into the dialog and k the detections of the pair flushed since.
C34_ClickKeepsDetections ==
    [][(owner_table'.open /\ owner_table.open
        /\ owner_table'.last # owner_table.last /\ owner_table'.last.first) =>
          QuantityOf(account_inventory', owner_table'.last.account_id,
                     owner_table'.card_id)
             = owner_table'.last.q + owner_table'.last.k
                 + owner_table'.last.amount_change]_vars

(***************************************************************************)
(* The cached last message id                                              *)
(***************************************************************************)
\* the messages an incremental scan fetched and has not yet handed on
Fetched(b, i) ==
    {b.msgs[k] : k \in DOMAIN b.msgs} \cup {i.rest[k] : k \in DOMAIN i.rest}

C36_AfterIdAtMostStored ==
    /\ last_message_id_cache <= MaxId(trades)
    /\ \A s \in Scanners :
          inc[s].pc = "batching" => inc[s].max_msg_id <= MaxId(trades)

C36_FetchStep ==
    \A s \in Scanners :
        (inc[s].pc = "idle" /\ inc'[s].pc = "batching") =>
            \A m \in DOMAIN channel :
                m > MaxId(trades) => m \in Fetched(batches'[s], inc'[s])

\* C36: the cached id, and the 'after' id of every incremental scan under
\* way, is at most the highest message id stored in trades, and a scan
\* that starts fetches every message above the highest stored id.
C36_CacheNeverAheadOfLedger ==
    [][C36_AfterIdAtMostStored' /\ C36_FetchStep]_vars

\* a manual scan runs on a cache that is older than the ledger: it has
\* fetched a message stored since and passed it over
C36_Witness ==
    /\ inc[ManualTask].pc = "batching"
    /\ inc[ManualTask].max_msg_id < MaxId(trades)
    /\ \E k \in DOMAIN batches[ManualTask].msgs :
          /\ k < batches[ManualTask].i
          /\ Stored(batches[ManualTask].msgs[k])
          /\ ~InBatch(ManualTask, batches[ManualTask].msgs[k])

(***************************************************************************)
(* on_ready when a scan cannot run or raises                               *)
(***************************************************************************)
\* on_ready when SELECT COUNT raises ("error": the except branch of on_ready)
\* or get_channel returns None ("channel not found": each scan sets the
\* flag and returns, with no await in between), then its last statements
on_ready_fails ==
    /\ running /\ ready.pc = "connecting"
    /\ \E cause \in {"error", "channel not found"} :
          ready' = [ready EXCEPT !.pc = "done", !.ended = cause]
    /\ initial_scan_done' = TRUE
    /\ UNCHANGED <<channel, ledgerVars, writerVars, running,
                   last_message_id_cache, last_cache_update, inc, batches,
                   crashes, manuals>>
    /\ UNCHANGED <<app, componentVars>>

\* on_ready on a ledger with rows when channel.history of the incremental
\* scan raises: the scan logs and returns, the historical scan starts
on_ready_fetch_fails ==
    /\ running /\ ready.pc = "connecting"
    /\ Len(trades) # 0
    /\ LET trade_list == TradesToReprocess(trades) IN
       ready' = [ready EXCEPT
                    !.pc = "hist", !.cur = MinId(trades),
                    !.reprocess = {trade_list[i].message_id :
                                     i \in DOMAIN trade_list},
                    !.replayed = RecoverMissingCards(trade_list),
                    !.ended = "fetch failed"]
    /\ last_message_id_cache' = CacheRefreshed(trades, last_message_id_cache)
    /\ last_cache_update' = 1
    /\ UNCHANGED <<channel, ledgerVars, writerVars, running, initial_scan_done,
                   inc, batches, crashes, manuals>>
    /\ UNCHANGED <<app, componentVars>>

\* an early return of the historical scan that ends on_ready with it
HistAbortEndsOnReady ==
    /\ running /\ ready.pc = "hist"
    /\ ready' = [ready EXCEPT !.pc = "done", !.ended = "error"]
    /\ UNCHANGED <<channel, ledgerVars, writerVars, running, initial_scan_done,
                   last_message_id_cache, last_cache_update, inc, batches,
                   crashes, manuals>>
    /\ UNCHANGED <<app, componentVars>>

\* perform_historical_scan_streaming returns early: read_message_history is
\* denied, or the history iterator raises; then on_ready's last statements
HistAbort ==
    /\ running /\ ready.pc = "hist"
    /\ \E cause \in {"permission denied", "error"} :
          ready' = [ready EXCEPT !.pc = "done", !.ended = cause]
    /\ initial_scan_done' = TRUE
    /\ UNCHANGED <<channel, ledgerVars, writerVars, running,
                   last_message_id_cache, last_cache_update, inc, batches,
                   crashes, manuals>>
    /\ UNCHANGED <<app, componentVars>>

NextReady ==
    \/ Post
    \/ start_bot
    \/ on_ready
    \/ on_ready_fails
    \/ on_ready_fetch_fails
    \/ HistNext
    \/ HistScanDone
    \/ HistAbort
    \/ IncNextBatch(ReadyTask)
    \/ BatchResume(ReadyTask)
    \/ \E m \in 1..MaxMsgs : ScanDone(ReadyTask, m)
    \/ Crash

\* the event loop resumes every coroutine of on_ready whose await is over:
\* an attachment read and a recognition return, raise or time out
FairnessReady ==
    /\ WF_vars(on_ready)
    /\ WF_vars(HistNext)
    /\ WF_vars(HistScanDone)
    /\ WF_vars(IncNextBatch(ReadyTask))
    /\ WF_vars(BatchResume(ReadyTask))
    /\ WF_vars(\E m \in 1..MaxMsgs : ScanDone(ReadyTask, m))

SpecReady == Init /\ [][NextReady]_vars /\ FairnessReady

\* C37: every run of on_ready that is not cut short by the end of the
\* process sets initial_scan_done, whatever the ledger holds and whichever
\* scan cannot run or raises.
C37_OnReadyEntersLive ==
    (running /\ ready.pc = "connecting") ~> (initial_scan_done \/ ~running)

\* a startup on a ledger with rows whose incremental fetch failed and whose
\* historical scan was then refused has entered live monitoring
C37_Witness ==
    /\ running /\ initial_scan_done /\ crashes > 0
    /\ trades # <<>>
    /\ ready.pc = "done" /\ ready.ended = "permission denied"
    /\ last_cache_update = 1

(***************************************************************************)
(* Fetching an attachment: download_attachment_fast and the reads of the   *)
(* batch, live and historical paths                                        *)
(***************************************************************************)
MAX_RETRIES == 3    \* config.py
RETRY_DELAY == 1    \* config.py, in seconds
MaxCalls == 2       \* fetches made one after the other

\* what one attempt can do: status 200, another status, an exception
AttemptOutcomes == {"200", "status", "raised"}
\* process_message_batch_fast (a batch of the scans, or the one message of
\* on_message) and perform_historical_scan_streaming
ReadPaths == {"batch", "live", "historical"}

\* a fetch has returned: download.log gets what it did
Finished(path, attempts, slept, result) ==
    [pc |-> "idle",
     log |-> Append(download.log,
                    [path |-> path, attempts |-> attempts, slept |-> slept,
                     result |-> result])]

\* download_attachment_fast up to its loop: 'skipped' when the file exists
download_attachment_fast ==
    /\ download.pc = "idle" /\ Len(download.log) < MaxCalls
    /\ \E exists \in BOOLEAN :
          download' =
             IF exists THEN Finished("download_attachment_fast", 0, 0, "skipped")
             ELSE [download EXCEPT !.pc = "try"] @@
                  [attempt |-> 0, attempts |-> 0, slept |-> 0]
    /\ UNCHANGED <<channel, ledgerVars, writerVars, clientVars, crashes, manuals,
                   app, recognizerVars, account_calls, credentials, owner_table>>

\* one iteration of "for attempt in range(MAX_RETRIES)" up to its return or
\* to the sleep
download_attempt ==
    /\ download.pc = "try"
    /\ \E outcome \in AttemptOutcomes :
          download' =
             IF outcome = "200"
             THEN Finished("download_attachment_fast", download.attempts + 1,
                           download.slept, "downloaded")
             ELSE IF download.attempt = MAX_RETRIES - 1
             THEN Finished("download_attachment_fast", download.attempts + 1,
                           download.slept, "failed")
             ELSE [download EXCEPT !.pc = "sleep", !.attempts = @ + 1]
    /\ UNCHANGED <<channel, ledgerVars, writerVars, clientVars, crashes, manuals,
                   app, recognizerVars, account_calls, credentials, owner_table>>

\* await asyncio.sleep(RETRY_DELAY), then the next iteration
download_sleep ==
    /\ download.pc = "sleep"
    /\ download' = [download EXCEPT !.pc = "try", !.attempt = @ + 1,
                                    !.slept = @ + RETRY_DELAY]
    /\ UNCHANGED <<channel, ledgerVars, writerVars, clientVars, crashes, manuals,
                   app, recognizerVars, account_calls, credentials, owner_table>>

\* the reads of a message's attachments in one try: "await xml_att.read()",
\* "await img_att.read()"; what a read raises skips the message (continue)
attachment_read ==
    /\ download.pc = "idle" /\ Len(download.log) < MaxCalls
    /\ \E path \in ReadPaths : \E xml_att \in BOOLEAN, img_att \in BOOLEAN :
       \E failing \in {"none", "xml", "img"} :
          /\ xml_att \/ img_att
          /\ failing = "xml" => xml_att
          /\ failing = "img" => img_att
          /\ download' =
                IF failing = "none"
                THEN Finished(path, (IF xml_att THEN 1 ELSE 0)
                                      + (IF img_att THEN 1 ELSE 0), 0, "read")
                ELSE Finished(path, 1, 0, "failed")
    /\ UNCHANGED <<channel, ledgerVars, writerVars, clientVars, crashes, manuals,
                   app, recognizerVars, account_calls, credentials, owner_table>>

NextDownload ==
    \/ download_attachment_fast
    \/ download_attempt
    \/ download_sleep
    \/ attachment_read

SpecDownload == Init /\ [][NextDownload]_vars

\* C38: a fetch that gave up, on whichever path, made exactly MAX_RETRIES
\* attempts on the failing attachment with a pause of RETRY_DELAY between
\* one attempt and the next, and no fetch makes more attempts than that.
C38_FixedRetryPolicy ==
    /\ \A k \in DOMAIN download.log :
          download.log[k].result = "failed" =>
             /\ download.log[k].attempts = MAX_RETRIES
             /\ download.log[k].slept = (MAX_RETRIES - 1) * RETRY_DELAY
    /\ download.pc \in {"try", "sleep"} => download.attempts < MAX_RETRIES

====
